---- MODULE Spec2Model ----
(***************************************************************************)
(* The frame loop of HelloTriangleApp (HelloTriangleApp.cpp, the latest    *)
(* stage of the tutorial, lines 1235-2412): mainLoop, drawFrame,           *)
(* recreateSwapChain and the GPU that completes submitted work.            *)
(*                                                                         *)
(* One CPU thread walks through the statements of the code (pc); the GPU   *)
(* completes outstanding submissions at any time; the window system        *)
(* delivers events only inside glfwPollEvents and glfwWaitEvents.          *)
(***************************************************************************)
EXTENDS Integers, Sequences, FiniteSets

\* ---------------------------------------------------------------- constants

\* HelloTriangleApp.h:21
MAX_FRAMES_IN_FLIGHT == 2

\* createSwapChain asks for std::max(3u, surfaceCapabilities.minImageCount)
RequestedImages == 3

\* HelloTriangleApp.h:18-19, the size initWindow creates the window with
WIDTH == 800
HEIGHT == 600

\* Bounds of the model: the largest number of images a swapchain is created
\* with, and the cap of the rebuild counter.
MaxImages == 4
MaxCount == 2

\* The framebuffer sizes the window reports: recreateSwapChain tells only zero
\* from nonzero, so a dimension is 0 (minimised) or the one of initWindow.
Widths == {0, WIDTH}
Heights == {0, HEIGHT}
Slots == 0..(MAX_FRAMES_IN_FLIGHT - 1)

\* The vk::Result values drawFrame distinguishes.  eTimeout stands for the
\* status codes that are neither success nor a stale-surface signal nor an
\* error (eTimeout, eNotReady); eErrorDeviceLost for the device-level errors.
AcquireResults ==
    {"eSuccess", "eSuboptimalKHR", "eErrorOutOfDateKHR", "eTimeout", "eErrorDeviceLost"}
PresentResults ==
    {"eSuccess", "eSuboptimalKHR", "eErrorOutOfDateKHR", "eErrorDeviceLost"}

\* What reading renderFinishedSemaphores[i] with i >= size() yields when the
\* read does not crash: a handle that is no semaphore of the application.
GarbageHandle == 0 - 1

Min(a, b) == IF a < b THEN a ELSE b
Max(a, b) == IF a < b THEN b ELSE a

VARIABLES
    pc,                         \* the statement the CPU thread is at
    windowShouldClose,          \* glfwWindowShouldClose(window)
    fbWidth, fbHeight,          \* what glfwGetFramebufferSize reports now
    framebufferResized,         \* HelloTriangleApp::framebufferResized
    currentFrame,               \* HelloTriangleApp::currentFrame
    semaphoreIndex,             \* HelloTriangleApp::semaphoreIndex
    swapChain,                  \* TRUE iff swapChain holds a live swapchain
    swapChainImages,            \* swapChainImages.size()
    swapChainImageViews,        \* swapChainImageViews.size()
    presentCompleteSemaphores,  \* presentCompleteSemaphores.size()
    renderFinishedSemaphores,   \* renderFinishedSemaphores.size()
    inFlightFences,             \* sequence: fence i+1 signaled?
    commandBuffers,             \* sequence: state of command buffer i+1
    outstanding,                \* submissions the GPU has not completed
    result, imageIndex,         \* locals of drawFrame
    width, height,              \* locals of recreateSwapChain
    caller,                     \* which call site of recreateSwapChain
    acquireSemaphore,           \* semaphore index handed to acquireNextImage
    submitInfo,                 \* the submission made by this drawFrame call
    presentInfo,                \* the present request made by this call
    callLog,                    \* steps this drawFrame call has executed
    sigPending,                 \* a resize/stale signal since the last successful present
    rebuildsSinceFirst,         \* rebuilds started since the first such signal
    rebuiltSinceLast,           \* a rebuild started since the latest such signal
    signaledSemaphores,         \* presentCompleteSemaphores with a signal no wait has consumed
    entryFrame, entrySemaphore, \* currentFrame, semaphoreIndex when drawFrame was entered
    recorded,                   \* commands this call recorded into commandBuffers[currentFrame]
    exception,                  \* what() of the exception in flight or caught, "" if none
    cerr,                       \* what main has written to std::cerr
    dstBuffer,                  \* the buffer the running create*Buffer call fills
    stagingBuffer,              \* its local stagingBuffer with its memory
    commandCopyBuffer,          \* the local command buffer of copyBuffer
    filled,                     \* the device-local buffers that hold their complete data
    input, output,              \* arguments and outcome of a function checked on its own
    pipelineLayout,             \* the object the handle HelloTriangleApp::pipelineLayout names
    graphicsPipeline,           \* TRUE iff graphicsPipeline holds a pipeline
    physicalDevice,             \* position of the selected device in the enumeration, 0 if none
    queueIndex,                 \* HelloTriangleApp::queueIndex
    device                      \* <<physical device, queue family>> of the logical device and its queue

vars == <<pc, windowShouldClose, fbWidth, fbHeight, framebufferResized,
          currentFrame, semaphoreIndex, swapChain, swapChainImages,
          swapChainImageViews, presentCompleteSemaphores,
          renderFinishedSemaphores, inFlightFences, commandBuffers,
          outstanding, result, imageIndex, width, height, caller,
          acquireSemaphore, submitInfo, presentInfo, callLog,
          sigPending, rebuildsSinceFirst, rebuiltSinceLast,
          signaledSemaphores, entryFrame, entrySemaphore, recorded,
          exception, cerr,
          dstBuffer, stagingBuffer, commandCopyBuffer, filled, input, output,
          pipelineLayout, graphicsPipeline,
          physicalDevice, queueIndex, device>>

windowVars == <<windowShouldClose, fbWidth, fbHeight>>
frameVars == <<currentFrame, semaphoreIndex>>
swapVars == <<swapChain, swapChainImages, swapChainImageViews>>
semVars == <<presentCompleteSemaphores, renderFinishedSemaphores,
            signaledSemaphores>>
gpuVars == <<inFlightFences, commandBuffers, outstanding>>
localVars == <<result, imageIndex, width, height, caller>>
callVars == <<acquireSemaphore, submitInfo, presentInfo, callLog,
             entryFrame, entrySemaphore, recorded>>
entryVars == <<entryFrame, entrySemaphore>>
sigVars == <<sigPending, rebuildsSinceFirst, rebuiltSinceLast>>
errVars == <<exception, cerr>>
copyVars == <<dstBuffer, stagingBuffer, commandCopyBuffer, filled>>
fnVars == <<input, output>>
pipeVars == <<pipelineLayout, graphicsPipeline>>
devVars == <<physicalDevice, queueIndex, device>>

\* ------------------------------------------------------------ construction

\* The window as initWindow creates it: WIDTH x HEIGHT, both nonzero.
initWindow ==
    /\ windowShouldClose = FALSE
    /\ fbWidth = WIDTH
    /\ fbHeight = HEIGHT

\* The members that initVulkan has not set yet, as the default member
\* initializers leave them.
Members ==
    /\ framebufferResized = FALSE
    /\ currentFrame = 0
    /\ semaphoreIndex = 0
    /\ swapChain = FALSE
    /\ swapChainImages = 0
    /\ swapChainImageViews = 0
    /\ presentCompleteSemaphores = 0
    /\ renderFinishedSemaphores = 0
    /\ inFlightFences = <<>>
    /\ commandBuffers = <<>>
    /\ outstanding = <<>>
    /\ result = "eSuccess"
    /\ imageIndex = 0
    /\ width = 0
    /\ height = 0
    /\ caller = "none"
    /\ acquireSemaphore = 0
    /\ submitInfo = {}
    /\ presentInfo = {}
    /\ callLog = <<>>
    /\ sigPending = FALSE
    /\ rebuildsSinceFirst = 0
    /\ rebuiltSinceLast = FALSE
    /\ signaledSemaphores = {}
    /\ entryFrame = 0
    /\ entrySemaphore = 0
    /\ recorded = <<>>
    /\ exception = ""
    /\ cerr = <<>>
    /\ dstBuffer = "none"
    /\ stagingBuffer = "none"
    /\ commandCopyBuffer = "none"
    /\ filled = {}
    /\ pipelineLayout = "null"
    /\ graphicsPipeline = FALSE

\* ------------------------------------------------------- findMemoryType

RECURSIVE Pow2(_)
Pow2(n) == IF n = 0 THEN 1 ELSE 2 * Pow2(n - 1)

\* vk::MemoryPropertyFlagBits: the bits the application asks for
eDeviceLocal == Pow2(0)
eHostVisible == Pow2(1)
eHostCoherent == Pow2(2)

\* vk::MemoryPropertyFlags as bit masks over these three bits
MemoryPropertyFlags == 0..(Pow2(3) - 1)

\* memoryTypeCount ranges over 0..MaxTypes, typeFilter over MaxTypes bits
MaxTypes == 3

\* a & b on unsigned integers
RECURSIVE BitAnd(_, _)
BitAnd(a, b) ==
    IF a = 0 \/ b = 0 THEN 0
    ELSE (a % 2) * (b % 2) + 2 * BitAnd(a \div 2, b \div 2)

\* typeFilter & (1 << i) && (memoryTypes[i].propertyFlags & properties) ==
\* properties; memoryTypes[i] of the code is memoryTypes[i + 1] here.
memoryTypeMatchesAnyFlag(i, typeFilter, properties, memoryTypes) ==
    /\ BitAnd(typeFilter, Pow2(i)) # 0
    /\ BitAnd(memoryTypes[i + 1], properties) # 0

memoryTypeMatches(i, typeFilter, properties, memoryTypes) ==
    /\ BitAnd(typeFilter, Pow2(i)) # 0
    /\ BitAnd(memoryTypes[i + 1], properties) = properties

\* The loop of findMemoryType from index i on: the index returned, or
\* memoryTypeCount when the loop runs to its end.
RECURSIVE findMemoryTypeLoop(_, _, _, _)
findMemoryTypeLoop(i, typeFilter, properties, memoryTypes) ==
    IF i >= Len(memoryTypes) THEN Len(memoryTypes)
    ELSE IF memoryTypeMatches(i, typeFilter, properties, memoryTypes)
         THEN i
         ELSE findMemoryTypeLoop(i + 1, typeFilter, properties, memoryTypes)

\* A uint32_t is held as the 32-bit signed integer with the same bits, so
\* that every value of the type has a representation: 0 .. 2^31 - 1 are
\* themselves and 2^31 .. 2^32 - 1 are -2^31 .. -1.
\* std::numeric_limits<uint32_t>::max(), also ~0 converted to uint32_t: all
\* bits set.
UINT32_MAX == 0 - 1

\* What the application reads of a queue family: whether queueFlags has
\* eGraphics, and what getSurfaceSupportKHR answers for it.
QueueFamilies == [graphics : BOOLEAN, present : BOOLEAN]

\* What pickPhysicalDevice reads of a device besides its queue families: api
\* version at least 1.3, all required extensions, the required features. All
\* hold, or one of them fails.
DeviceCapabilities ==
    {[apiVersion1_3 |-> a, extensions |-> e, features |-> f] :
        <<a, e, f>> \in {<<TRUE, TRUE, TRUE>>, <<FALSE, TRUE, TRUE>>,
                         <<TRUE, FALSE, TRUE>>, <<TRUE, TRUE, FALSE>>}}

PhysicalDevice(cap, fams) ==
    [apiVersion1_3 |-> cap.apiVersion1_3, extensions |-> cap.extensions,
     features |-> cap.features, queueFamilies |-> fams]

AllCapabilities ==
    [apiVersion1_3 |-> TRUE, extensions |-> TRUE, features |-> TRUE]

\* validationLayers of the header
validationLayers == <<"VK_LAYER_KHRONOS_validation">>

\* A machine and a build, as far as initVulkan reads them:
\* enableValidationLayers (NDEBUG not defined), the instance layers and
\* extensions the Vulkan implementation enumerates, the extensions
\* glfwGetRequiredInstanceExtensions names, whether glfwCreateWindowSurface
\* succeeds, the physical devices in enumeration order, the memory types of
\* the selected device, ASSETS_SRC_DIR and whether the shader file below it
\* can be opened.
NormalMachine ==
    [enableValidationLayers |-> FALSE,
     instanceLayers |-> {},
     instanceExtensions |-> {"VK_KHR_surface", "VK_KHR_xcb_surface"},
     glfwExtensions |-> <<"VK_KHR_surface", "VK_KHR_xcb_surface">>,
     windowSurface |-> TRUE,
     devices |-> <<PhysicalDevice(AllCapabilities,
                                  <<[graphics |-> TRUE, present |-> TRUE]>>)>>,
     memoryTypes |-> <<eDeviceLocal, eHostVisible + eHostCoherent>>,
     assetsDir |-> "/src/HelloTriangle/Assets",
     shaderFile |-> TRUE]

\* The machines the whole program is run on: the normal one, and machines
\* that differ from it in one respect: a debug build without the validation
\* layer, a debug build without the debug-utils extension, a missing
\* surface extension, no window surface, no Vulkan device, a device whose
\* only queue family cannot present, a device with host-visible memory only,
\* a missing shader file.
Machines ==
    {NormalMachine,
     [NormalMachine EXCEPT !.enableValidationLayers = TRUE],
     [NormalMachine EXCEPT !.enableValidationLayers = TRUE,
                           !.instanceLayers = {"VK_LAYER_KHRONOS_validation"}],
     [NormalMachine EXCEPT !.instanceExtensions = {"VK_KHR_surface"}],
     [NormalMachine EXCEPT !.windowSurface = FALSE],
     [NormalMachine EXCEPT !.devices = <<>>],
     [NormalMachine EXCEPT !.devices =
         <<PhysicalDevice(AllCapabilities,
                          <<[graphics |-> TRUE, present |-> FALSE]>>)>>],
     [NormalMachine EXCEPT !.memoryTypes = <<eHostVisible + eHostCoherent>>],
     [NormalMachine EXCEPT !.shaderFile = FALSE]}

\* initWindow has run and the program is about to run initVulkan on one of
\* the machines.
Init ==
    /\ pc = "init_createInstance"
    /\ initWindow
    /\ Members
    /\ physicalDevice = 0
    /\ queueIndex = UINT32_MAX
    /\ device = <<>>
    /\ input \in Machines
    /\ output = <<>>

\* ------------------------------------------------- resize / stale signals

\* Bookkeeping of the resize and stale signals (the resize callback firing, an
\* out-of-date or suboptimal result of acquire or present) and of the
\* rebuilds started since.
SignalRaised ==
    /\ sigPending' = TRUE
    /\ rebuildsSinceFirst' = IF sigPending THEN rebuildsSinceFirst ELSE 0
    /\ rebuiltSinceLast' = FALSE

RebuildStarted ==
    /\ sigPending' = sigPending
    /\ rebuildsSinceFirst' = Min(MaxCount, rebuildsSinceFirst + 1)
    /\ rebuiltSinceLast' = TRUE

SignalsServed ==
    /\ sigPending' = FALSE
    /\ rebuildsSinceFirst' = 0
    /\ rebuiltSinceLast' = FALSE

IsStale(r) == r \in {"eErrorOutOfDateKHR", "eSuboptimalKHR"}

\* ------------------------------------------------------------ the window

\* framebufferResizeCallback: app->framebufferResized = true.
framebufferResizeCallback == framebufferResized' = TRUE

\* The events one call of glfwPollEvents / glfwWaitEvents dispatches: the
\* framebuffer ends at size w x h, the resize callback ran (fired) or not,
\* the user asked to close the window (close) or not.  A change of size is
\* always reported through the callback.
DispatchEvents(w, h, fired, close) ==
    /\ (w # fbWidth \/ h # fbHeight) => fired
    /\ fbWidth' = w
    /\ fbHeight' = h
    /\ windowShouldClose' = (windowShouldClose \/ close)
    /\ IF fired
       THEN framebufferResizeCallback /\ SignalRaised
       ELSE UNCHANGED <<framebufferResized, sigVars>>

\* ------------------------------------------------------------ swapchain

\* createSwapChain, the image count it asks for (lines 1311-1312).
minImageCount(capsMin, capsMax) ==
    LET wanted == Max(RequestedImages, capsMin)
    IN IF capsMax > 0 /\ wanted > capsMax THEN capsMax ELSE wanted

\* createSwapChain: the device creates at least minImageCount images and, when
\* the surface states a maximum, at most that many; swapChainImages is what
\* swapChain.getImages() returns.
createSwapChain ==
    \E capsMin \in 1..MaxImages, capsMax \in 0..MaxImages, n \in 1..MaxImages :
        /\ capsMax = 0 \/ capsMin <= capsMax
        /\ n >= minImageCount(capsMin, capsMax)
        /\ capsMax > 0 => n <= capsMax
        /\ swapChain' = TRUE
        /\ swapChainImages' = n

\* createImageViews: clear the vector, then one view per swapchain image.
createImageViews == swapChainImageViews' = swapChainImages

\* createCommandBuffers: MAX_FRAMES_IN_FLIGHT primary command buffers.
createCommandBuffers ==
    commandBuffers' = [i \in 1..MAX_FRAMES_IN_FLIGHT |-> "initial"]

\* createSyncObjects: a pair of semaphores per swapchain image, a signaled
\* fence per frame slot.
createSyncObjects ==
    /\ presentCompleteSemaphores' = swapChainImages
    /\ renderFinishedSemaphores' = swapChainImages
    /\ inFlightFences' = [i \in 1..MAX_FRAMES_IN_FLIGHT |-> TRUE]
    /\ signaledSemaphores' = {}

\* ------------------------------------------------------------ initVulkan

\* throw std::runtime_error(what): the stack unwinds to the try block of main.
Throw(what) ==
    /\ exception' = what
    /\ cerr' = cerr
    /\ pc' = "thrown"

\* ----------------------------------------- createInstance, createSurface

\* checkValidationLayerSupport: every validation layer is among the
\* enumerated instance layers
checkValidationLayerSupport ==
    \A i \in DOMAIN validationLayers : validationLayers[i] \in input.instanceLayers

\* requiredLayers of createInstance
requiredLayers == IF input.enableValidationLayers THEN validationLayers ELSE <<>>

\* getRequiredExtensions: the GLFW extensions, then the debug-utils extension
\* in a build with validation layers
getRequiredExtensions ==
    IF input.enableValidationLayers
    THEN Append(input.glfwExtensions, "VK_EXT_debug_utils")
    ELSE input.glfwExtensions

\* The position of the first name of required that is not in available, 0
\* if there is none: what the range-for loops of createInstance stop at.
firstUnsupported(required, available) ==
    LET missing == {i \in DOMAIN required : required[i] \notin available}
    IN IF missing = {} THEN 0
       ELSE CHOOSE i \in missing : \A j \in missing : i <= j

\* createInstance passes its three checks and creates the instance;
\* setupDebugMessenger follows.
CreateInstance ==
    /\ pc = "init_createInstance"
    /\ ~(input.enableValidationLayers /\ ~checkValidationLayerSupport)
    /\ firstUnsupported(requiredLayers, input.instanceLayers) = 0
    /\ firstUnsupported(getRequiredExtensions, input.instanceExtensions) = 0
    /\ pc' = "init_createSurface"
    /\ UNCHANGED <<windowVars, framebufferResized, frameVars, swapVars,
                   semVars, gpuVars, localVars, callVars, sigVars, errVars,
                   copyVars, fnVars, pipeVars, devVars>>

\* the first of the three checks of createInstance that fails throws
CreateInstanceThrow ==
    /\ pc = "init_createInstance"
    /\ LET layer == firstUnsupported(requiredLayers, input.instanceLayers)
           extension == firstUnsupported(getRequiredExtensions,
                                         input.instanceExtensions)
       IN IF input.enableValidationLayers /\ ~checkValidationLayerSupport
          THEN Throw("validation layers requested, but not available!")
          ELSE IF layer # 0
          THEN Throw("Required layer not supported: " \o requiredLayers[layer])
          ELSE /\ extension # 0
               /\ Throw("Required extension not supported: "
                        \o getRequiredExtensions[extension])
    /\ UNCHANGED <<windowVars, framebufferResized, frameVars, swapVars,
                   semVars, gpuVars, localVars, callVars, sigVars,
                   copyVars, fnVars, pipeVars, devVars>>

\* glfwCreateWindowSurface returned 0
CreateSurface ==
    /\ pc = "init_createSurface"
    /\ input.windowSurface
    /\ pc' = "init_pickPhysicalDevice"
    /\ UNCHANGED <<windowVars, framebufferResized, frameVars, swapVars,
                   semVars, gpuVars, localVars, callVars, sigVars, errVars,
                   copyVars, fnVars, pipeVars, devVars>>

\* throw std::runtime_error("failed to create window surface!");
CreateSurfaceThrow ==
    /\ pc = "init_createSurface"
    /\ ~input.windowSurface
    /\ Throw("failed to create window surface!")
    /\ UNCHANGED <<windowVars, framebufferResized, frameVars, swapVars,
                   semVars, gpuVars, localVars, callVars, sigVars,
                   copyVars, fnVars, pipeVars, devVars>>

\* ------------------------------ pickPhysicalDevice, createLogicalDevice

\* the lambda of pickPhysicalDevice
isDeviceSuitable(d) ==
    /\ d.apiVersion1_3
    /\ \E i \in 1..Len(d.queueFamilies) : d.queueFamilies[i].graphics
    /\ d.extensions
    /\ d.features

\* std::ranges::find_if(devices, lambda) from position i on: the position of
\* the first device the lambda accepts, Len(devices) + 1 for devices.end()
RECURSIVE find_if(_, _)
find_if(devices, i) ==
    IF i > Len(devices) THEN Len(devices) + 1
    ELSE IF isDeviceSuitable(devices[i]) THEN i
    ELSE find_if(devices, i + 1)

\* physicalDevice = *devIter;
PickPhysicalDevice ==
    /\ pc = "init_pickPhysicalDevice"
    /\ find_if(input.devices, 1) <= Len(input.devices)
    /\ physicalDevice' = find_if(input.devices, 1)
    /\ pc' = "init_createLogicalDevice"
    /\ UNCHANGED <<windowVars, framebufferResized, frameVars, swapVars,
                   semVars, gpuVars, localVars, callVars, sigVars, errVars,
                   copyVars, fnVars, pipeVars, queueIndex, device>>

\* throw std::runtime_error("failed to find a suitable GPU!");
PickPhysicalDeviceThrow ==
    /\ pc = "init_pickPhysicalDevice"
    /\ find_if(input.devices, 1) > Len(input.devices)
    /\ Throw("failed to find a suitable GPU!")
    /\ UNCHANGED <<windowVars, framebufferResized, frameVars, swapVars,
                   semVars, gpuVars, localVars, callVars, sigVars,
                   copyVars, fnVars, pipeVars, devVars>>

\* the condition of the loop body of createLogicalDevice
supportsGraphicsOnly(qfp) == qfp.graphics

supportsGraphicsAndPresent(qfp) == qfp.graphics /\ qfp.present

\* The loop of createLogicalDevice from qfpIndex on: the value queueIndex has
\* after it. queueFamilyProperties[qfpIndex] of the code is
\* queueFamilyProperties[qfpIndex + 1] here.
RECURSIVE queueIndexAfterLoop(_, _, _)
queueIndexAfterLoop(queueFamilyProperties, qfpIndex, before) ==
    IF qfpIndex >= Len(queueFamilyProperties) THEN before
    ELSE IF supportsGraphicsAndPresent(queueFamilyProperties[qfpIndex + 1])
         THEN qfpIndex
         ELSE queueIndexAfterLoop(queueFamilyProperties, qfpIndex + 1, before)

\* createLogicalDevice when the check of queueIndex passes: the device and
\* the queue are created with queueIndex.
CreateLogicalDevice ==
    /\ pc = "init_createLogicalDevice"
    /\ LET found == queueIndexAfterLoop(input.devices[physicalDevice].queueFamilies,
                                        0, queueIndex)
       IN /\ found # UINT32_MAX
          /\ queueIndex' = found
          /\ device' = <<physicalDevice, found>>
    /\ pc' = "init_createSwapChain"
    /\ UNCHANGED <<windowVars, framebufferResized, frameVars, swapVars,
                   semVars, gpuVars, localVars, callVars, sigVars, errVars,
                   copyVars, fnVars, pipeVars, physicalDevice>>

\* if (queueIndex == ~0) throw std::runtime_error("Could not find a queue
\* for graphics and present -> terminating");
CreateLogicalDeviceThrow ==
    /\ pc = "init_createLogicalDevice"
    /\ queueIndexAfterLoop(input.devices[physicalDevice].queueFamilies,
                           0, queueIndex) = UINT32_MAX
    /\ Throw("Could not find a queue for graphics and present -> terminating")
    /\ UNCHANGED <<windowVars, framebufferResized, frameVars, swapVars,
                   semVars, gpuVars, localVars, callVars, sigVars,
                   copyVars, fnVars, pipeVars, devVars>>

InitCreateSwapChain ==
    /\ pc = "init_createSwapChain"
    /\ createSwapChain
    /\ pc' = "init_createImageViews"
    /\ UNCHANGED <<windowVars, framebufferResized, frameVars,
                   swapChainImageViews, semVars, gpuVars, localVars,
                   callVars, sigVars,
                   errVars,
                   copyVars, fnVars, pipeVars, devVars>>

InitCreateImageViews ==
    /\ pc = "init_createImageViews"
    /\ createImageViews
    /\ pc' = "init_createGraphicPipeline"
    /\ UNCHANGED <<windowVars, framebufferResized, frameVars, swapChain,
                   swapChainImages, semVars, gpuVars, localVars, callVars,
                   sigVars,
                   errVars,
                   copyVars, fnVars, pipeVars, devVars>>

\* ------------------------------------------------- createGraphicPipeline

\* the argument of readFile: ASSETS_SRC_DIR "/Shader/HelloTriangle/slang.spv"
shaderPath == input.assetsDir \o "/Shader/HelloTriangle/slang.spv"

\* readFile: throw std::runtime_error(std::format("failed to open file :
\* {0}", filePath)) when the file cannot be opened
ReadFileThrow ==
    /\ pc = "init_createGraphicPipeline"
    /\ ~input.shaderFile
    /\ Throw("failed to open file : " \o shaderPath)
    /\ UNCHANGED <<windowVars, framebufferResized, frameVars, swapVars,
                   semVars, gpuVars, localVars, callVars, sigVars,
                   copyVars, fnVars, pipeVars, devVars>>

\* pipelineLayout = vk::raii::PipelineLayout(device, pipelineLayoutInfo);
\* The member is dereferenced with * where the pipeline is created, so it is
\* a vk::raii::PipelineLayout: the temporary is moved into the member, which
\* owns the layout from here on.
CreatePipelineLayout ==
    /\ pc = "init_createGraphicPipeline"
    /\ input.shaderFile
    /\ pipelineLayout' = "alive"
    /\ pc' = "gp_createPipeline"
    /\ UNCHANGED <<windowVars, framebufferResized, frameVars, swapVars,
                   semVars, gpuVars, localVars, callVars, sigVars, errVars,
                   copyVars, fnVars, graphicsPipeline, devVars>>

\* graphicsPipeline = vk::raii::Pipeline(device, nullptr, pipelineInfo) with
\* .layout = *pipelineLayout
CreatePipeline ==
    /\ pc = "gp_createPipeline"
    /\ graphicsPipeline' = TRUE
    /\ pc' = "init_createVertexBuffer"
    /\ UNCHANGED <<windowVars, framebufferResized, frameVars, swapVars,
                   semVars, gpuVars, localVars, callVars, sigVars, errVars,
                   copyVars, fnVars, pipelineLayout, devVars>>

\* ------------------------------------ createVertexBuffer, createIndexBuffer

\* createBuffer(..., eTransferSrc, host visible, stagingBuffer, ...), mapMemory,
\* memcpy of the data into it, unmapMemory: the local staging buffer of a call
\* that fills the buffer buf.
CreateStagingBuffer(buf) ==
    /\ dstBuffer' = buf
    /\ stagingBuffer' = "alive"
    /\ commandCopyBuffer' = "none"
    /\ filled' = filled
    /\ pc' = "cb_createBuffer"

\* What buffer.getMemoryRequirements().memoryTypeBits can be: the driver
\* names at least one of the memory types of the device.
MemoryTypeBits == 1..(Pow2(Len(input.memoryTypes)) - 1)

\* findMemoryType(typeFilter, properties) of createBuffer returns an index
memoryTypeFound(typeFilter, properties) ==
    findMemoryTypeLoop(0, typeFilter, properties, input.memoryTypes)
        < Len(input.memoryTypes)

\* createVertexBuffer, lines 2152-2158
CreateVertexBufferStaging ==
    /\ pc = "init_createVertexBuffer"
    /\ \E memoryTypeBits \in MemoryTypeBits :
           memoryTypeFound(memoryTypeBits, eHostVisible + eHostCoherent)
    /\ CreateStagingBuffer("vertexBuffer")
    /\ UNCHANGED <<windowVars, framebufferResized, frameVars, swapVars,
                   semVars, gpuVars, localVars, callVars, sigVars, errVars,
                   fnVars, pipeVars, devVars>>

\* createIndexBuffer, lines 2256-2262
CreateIndexBufferStaging ==
    /\ pc = "init_createIndexBuffer"
    /\ \E memoryTypeBits \in MemoryTypeBits :
           memoryTypeFound(memoryTypeBits, eHostVisible + eHostCoherent)
    /\ CreateStagingBuffer("indexBuffer")
    /\ UNCHANGED <<windowVars, framebufferResized, frameVars, swapVars,
                   semVars, gpuVars, localVars, callVars, sigVars, errVars,
                   fnVars, pipeVars, devVars>>

\* lines 2155 / 2259: findMemoryType throws in the createBuffer of the
\* staging buffer; the buffer that createBuffer has already put into the
\* local stagingBuffer is destroyed by the unwinding.
CreateStagingBufferThrow ==
    /\ pc \in {"init_createVertexBuffer", "init_createIndexBuffer"}
    /\ \E memoryTypeBits \in MemoryTypeBits :
           ~memoryTypeFound(memoryTypeBits, eHostVisible + eHostCoherent)
    /\ Throw("failed to find suitable memory type!")
    /\ stagingBuffer' = "destroyed"
    /\ commandCopyBuffer' = "none"
    /\ UNCHANGED <<windowVars, framebufferResized, frameVars, swapVars,
                   semVars, gpuVars, localVars, callVars, sigVars,
                   dstBuffer, filled, fnVars, pipeVars, devVars>>

\* lines 2166 / 2264: findMemoryType throws in the createBuffer of the
\* device-local buffer; the staging buffer is destroyed by the unwinding.
CreateDstBufferThrow ==
    /\ pc = "cb_createBuffer"
    /\ \E memoryTypeBits \in MemoryTypeBits :
           ~memoryTypeFound(memoryTypeBits, eDeviceLocal)
    /\ Throw("failed to find suitable memory type!")
    /\ stagingBuffer' = "destroyed"
    /\ UNCHANGED <<windowVars, framebufferResized, frameVars, swapVars,
                   semVars, gpuVars, localVars, callVars, sigVars,
                   dstBuffer, commandCopyBuffer, filled, fnVars, pipeVars,
                   devVars>>

\* lines 2166 / 2264: createBuffer(..., eTransferDst, device local, dstBuffer, ...)
CreateDstBuffer ==
    /\ pc = "cb_createBuffer"
    /\ \E memoryTypeBits \in MemoryTypeBits :
           memoryTypeFound(memoryTypeBits, eDeviceLocal)
    /\ filled' = filled \ {dstBuffer}
    /\ pc' = "copy_record"
    /\ UNCHANGED <<windowVars, framebufferResized, frameVars, swapVars,
                   semVars, gpuVars, localVars, callVars, sigVars, errVars,
                   dstBuffer, stagingBuffer, commandCopyBuffer, fnVars, pipeVars, devVars>>

\* copyBuffer, lines 2236-2246: allocate commandCopyBuffer, begin (one-time
\* submit), copyBuffer(srcBuffer, dstBuffer, ...), end.
CopyRecord ==
    /\ pc = "copy_record"
    /\ commandCopyBuffer' = "executable"
    /\ pc' = "copy_submit"
    /\ UNCHANGED <<windowVars, framebufferResized, frameVars, swapVars,
                   semVars, gpuVars, localVars, callVars, sigVars, errVars,
                   dstBuffer, stagingBuffer, filled, fnVars, pipeVars, devVars>>

\* copyBuffer, lines 2247-2250: queue.submit(..., nullptr)
CopySubmit ==
    /\ pc = "copy_submit"
    /\ commandCopyBuffer' = "pending"
    /\ pc' = "copy_waitIdle"
    /\ UNCHANGED <<windowVars, framebufferResized, frameVars, swapVars,
                   semVars, gpuVars, localVars, callVars, sigVars, errVars,
                   dstBuffer, stagingBuffer, filled, fnVars, pipeVars, devVars>>

\* copyBuffer without the queue.waitIdle() of line 2251.
CopyWaitIdleSkipped ==
    /\ pc = "copy_waitIdle"
    /\ pc' = "copy_return"
    /\ UNCHANGED <<windowVars, framebufferResized, frameVars, swapVars,
                   semVars, gpuVars, localVars, callVars, sigVars, errVars,
                   copyVars, fnVars, pipeVars, devVars>>

\* copyBuffer, line 2251: queue.waitIdle() returns once the queue has
\* nothing left to execute.
CopyWaitIdle ==
    /\ pc = "copy_waitIdle"
    /\ commandCopyBuffer # "pending"
    /\ outstanding = <<>>
    /\ pc' = "copy_return"
    /\ UNCHANGED <<windowVars, framebufferResized, frameVars, swapVars,
                   semVars, gpuVars, localVars, callVars, sigVars, errVars,
                   copyVars, fnVars, pipeVars, devVars>>

\* copyBuffer, line 2252: the function returns, the destructor of the local
\* commandCopyBuffer frees the command buffer.
CopyReturn ==
    /\ pc = "copy_return"
    /\ commandCopyBuffer' = "freed"
    /\ pc' = "cb_return"
    /\ UNCHANGED <<windowVars, framebufferResized, frameVars, swapVars,
                   semVars, gpuVars, localVars, callVars, sigVars, errVars,
                   dstBuffer, stagingBuffer, filled, fnVars, pipeVars, devVars>>

\* lines 2168 / 2266: create*Buffer returns, the destructors of the locals
\* stagingBufferMemory and stagingBuffer free the memory and the buffer;
\* initVulkan goes on with createIndexBuffer, then (after the uniform buffers
\* and descriptor sets) with createCommandBuffers.
CreateBufferReturn ==
    /\ pc = "cb_return"
    /\ stagingBuffer' = "destroyed"
    /\ pc' = IF dstBuffer = "vertexBuffer"
             THEN "init_createIndexBuffer"
             ELSE "init_createUniformBuffers"
    /\ UNCHANGED <<windowVars, framebufferResized, frameVars, swapVars,
                   semVars, gpuVars, localVars, callVars, sigVars, errVars,
                   dstBuffer, commandCopyBuffer, filled, fnVars, pipeVars, devVars>>

\* The GPU executes the submitted copy: it reads the staging buffer, the
\* destination holds the complete data, and the one-time command buffer is
\* no longer pending.
CopyComplete ==
    /\ commandCopyBuffer = "pending"
    /\ commandCopyBuffer' = "invalid"
    /\ filled' = filled \cup {dstBuffer}
    /\ UNCHANGED <<pc, windowVars, framebufferResized, frameVars, swapVars,
                   semVars, gpuVars, localVars, callVars, sigVars, errVars,
                   dstBuffer, stagingBuffer, fnVars, pipeVars, devVars>>

\* createUniformBuffers: one host-visible buffer per frame slot, mapped;
\* createDescriptorPool and createDescriptorSets follow and give slot i the
\* descriptor set that names uniform buffer i.
InitCreateUniformBuffers ==
    /\ pc = "init_createUniformBuffers"
    /\ \E memoryTypeBits \in MemoryTypeBits :
           memoryTypeFound(memoryTypeBits, eHostVisible + eHostCoherent)
    /\ pc' = "init_createCommandBuffers"
    /\ UNCHANGED <<windowVars, framebufferResized, frameVars, swapVars,
                   semVars, gpuVars, localVars, callVars, sigVars, errVars,
                   copyVars, fnVars, pipeVars, devVars>>

\* findMemoryType throws in a createBuffer of createUniformBuffers
CreateUniformBuffersThrow ==
    /\ pc = "init_createUniformBuffers"
    /\ \E memoryTypeBits \in MemoryTypeBits :
           ~memoryTypeFound(memoryTypeBits, eHostVisible + eHostCoherent)
    /\ Throw("failed to find suitable memory type!")
    /\ UNCHANGED <<windowVars, framebufferResized, frameVars, swapVars,
                   semVars, gpuVars, localVars, callVars, sigVars,
                   copyVars, fnVars, pipeVars, devVars>>

InitCreateCommandBuffers ==
    /\ pc = "init_createCommandBuffers"
    /\ createCommandBuffers
    /\ pc' = "init_createSyncObjects"
    /\ UNCHANGED <<windowVars, framebufferResized, frameVars, swapVars,
                   semVars, inFlightFences, outstanding, localVars, callVars,
                   sigVars,
                   errVars,
                   copyVars, fnVars, pipeVars, devVars>>

InitCreateSyncObjects ==
    /\ pc = "init_createSyncObjects"
    /\ createSyncObjects
    /\ pc' = "loop"
    /\ UNCHANGED <<windowVars, framebufferResized, frameVars, swapVars,
                   commandBuffers, outstanding, localVars, callVars, sigVars,
                   errVars,
                   copyVars, fnVars, pipeVars, devVars>>

\* -------------------------------------------------------------- mainLoop

\* while (!glfwWindowShouldClose(window))
MainLoopCond ==
    /\ pc = "loop"
    /\ pc' = IF windowShouldClose THEN "drain" ELSE "poll"
    /\ UNCHANGED <<windowVars, framebufferResized, frameVars, swapVars,
                   semVars, gpuVars, localVars, callVars, sigVars,
                   errVars,
                   copyVars, fnVars, pipeVars, devVars>>

\* glfwPollEvents(); then drawFrame() is entered: nothing is logged, submitted
\* or presented by this call yet, and recreateSwapChain has no call site.
PollEvents ==
    /\ pc = "poll"
    /\ \E w \in Widths, h \in Heights, fired \in BOOLEAN, close \in BOOLEAN :
           DispatchEvents(w, h, fired, close)
    /\ pc' = "df_wait"
    /\ callLog' = <<>>
    /\ submitInfo' = {}
    /\ presentInfo' = {}
    /\ caller' = "none"
    /\ entryFrame' = currentFrame
    /\ entrySemaphore' = semaphoreIndex
    /\ recorded' = <<>>
    /\ UNCHANGED <<frameVars, swapVars, semVars, gpuVars, result, imageIndex,
                   width, height, acquireSemaphore,
                   errVars,
                   copyVars, fnVars, pipeVars, devVars>>

\* mainLoop without the device.waitIdle() of line 1415.
MainWaitIdleSkipped ==
    /\ pc = "drain"
    /\ pc' = "cleanup"
    /\ UNCHANGED <<windowVars, framebufferResized, frameVars, swapVars,
                   semVars, gpuVars, localVars, callVars, sigVars,
                   errVars,
                   copyVars, fnVars, pipeVars, devVars>>

\* device.waitIdle() after the loop: returns once the GPU has nothing left.
MainWaitIdle ==
    /\ pc = "drain"
    /\ outstanding = <<>>
    /\ pc' = "cleanup"
    /\ UNCHANGED <<windowVars, framebufferResized, frameVars, swapVars,
                   semVars, gpuVars, localVars, callVars, sigVars,
                   errVars,
                   copyVars, fnVars, pipeVars, devVars>>

\* cleanup(): glfwDestroyWindow, glfwTerminate.
Cleanup ==
    /\ pc = "cleanup"
    /\ pc' = "done"
    /\ UNCHANGED <<windowVars, framebufferResized, frameVars, swapVars,
                   semVars, gpuVars, localVars, callVars, sigVars,
                   errVars,
                   copyVars, fnVars, pipeVars, devVars>>

\* main: Run() returned, return EXIT_SUCCESS.
MainReturn ==
    /\ pc = "done"
    /\ pc' = "exit_success"
    /\ UNCHANGED <<windowVars, framebufferResized, frameVars, swapVars,
                   semVars, gpuVars, localVars, callVars, sigVars,
                   errVars,
                   copyVars, fnVars, pipeVars, devVars>>

\* main with the catch block returning EXIT_SUCCESS.
MainCatchSuccess ==
    /\ pc = "thrown"
    /\ cerr' = Append(cerr, exception)
    /\ exception' = exception
    /\ pc' = "exit_success"
    /\ UNCHANGED <<windowVars, framebufferResized, frameVars, swapVars,
                   semVars, gpuVars, localVars, callVars, sigVars,
                   copyVars, fnVars, pipeVars, devVars>>

\* main: catch (const std::exception& e), the message is written to
\* std::cerr, return EXIT_FAILURE.
MainCatch ==
    /\ pc = "thrown"
    /\ cerr' = Append(cerr, exception)
    /\ exception' = exception
    /\ pc' = "exit_failure"
    /\ UNCHANGED <<windowVars, framebufferResized, frameVars, swapVars,
                   semVars, gpuVars, localVars, callVars, sigVars,
                   copyVars, fnVars, pipeVars, devVars>>

\* ------------------------------------------------------------- drawFrame

Logged(step) == callLog' = Append(callLog, step)

\* drawFrame without the fence wait of line 1971.
WaitForFencesSkipped ==
    /\ pc = "df_wait"
    /\ pc' = "df_acquire"
    /\ callLog' = Append(callLog, "wait")
    /\ UNCHANGED <<windowVars, framebufferResized, frameVars, swapVars,
                   semVars, gpuVars, localVars, acquireSemaphore, submitInfo,
                   presentInfo, sigVars, entryVars, recorded,
                   errVars,
                   copyVars, fnVars, pipeVars, devVars>>

\* while (eTimeout == device.waitForFences(*inFlightFences[currentFrame], ...));
\* returns once the fence of the current slot is signaled.
WaitForFences ==
    /\ pc = "df_wait"
    /\ inFlightFences[currentFrame + 1]
    /\ pc' = "df_acquire"
    /\ Logged("wait")
    /\ UNCHANGED <<windowVars, framebufferResized, frameVars, swapVars,
                   semVars, gpuVars, localVars, acquireSemaphore, submitInfo,
                   presentInfo, sigVars, entryVars, recorded,
                   errVars,
                   copyVars, fnVars, pipeVars, devVars>>

\* swapChain.acquireNextImage(UINT64_MAX, *presentCompleteSemaphores[semaphoreIndex], nullptr):
\* any result; on success or suboptimal any image of the swapchain, and the
\* semaphore handed in gets a signal.
AcquireNextImage ==
    /\ pc = "df_acquire"
    /\ \E r \in AcquireResults :
          /\ result' = r
          /\ IF r \in {"eSuccess", "eSuboptimalKHR"}
             THEN \E i \in 0..(swapChainImages - 1) : imageIndex' = i
             ELSE imageIndex' = 0
          /\ IF IsStale(r) THEN SignalRaised ELSE UNCHANGED sigVars
          /\ signaledSemaphores' =
                 IF r \in {"eSuccess", "eSuboptimalKHR"}
                 THEN signaledSemaphores \cup {semaphoreIndex}
                 ELSE signaledSemaphores
    /\ acquireSemaphore' = semaphoreIndex
    /\ pc' = "df_acquired"
    /\ Logged("acquire")
    /\ UNCHANGED <<windowVars, framebufferResized, frameVars, swapVars,
                   presentCompleteSemaphores, renderFinishedSemaphores,
                   gpuVars, width, height, caller, submitInfo,
                   presentInfo, entryVars, recorded,
                   errVars,
                   copyVars, fnVars, pipeVars, devVars>>

\* line 1979 without the framebufferResized disjunct.
acquireNeedsRebuildNoFlag ==
    result = "eErrorOutOfDateKHR" \/ result = "eSuboptimalKHR"

\* line 1979 with only the out-of-date result leading to a rebuild.
acquireNeedsRebuildNoSuboptimal ==
    result = "eErrorOutOfDateKHR" \/ framebufferResized

\* line 1979
acquireNeedsRebuild ==
    result = "eErrorOutOfDateKHR" \/ result = "eSuboptimalKHR" \/ framebufferResized

\* line 1986 with eTimeout taken for a success.
acquireFailedOnlyDeviceLost == result = "eErrorDeviceLost"

\* line 1986
acquireFailed == result # "eSuccess" /\ result # "eSuboptimalKHR"

\* lines 1979-1984 with the slot advanced as at line 2072 before the return.
AcquireRebuildAdvancing ==
    /\ pc = "df_acquired"
    /\ acquireNeedsRebuild
    /\ currentFrame' = (currentFrame + 1) % MAX_FRAMES_IN_FLIGHT
    /\ framebufferResized' = FALSE
    /\ caller' = "acquire"
    /\ pc' = "rc_size"
    /\ RebuildStarted
    /\ callLog' = Append(callLog, "rebuild")
    /\ UNCHANGED <<windowVars, semaphoreIndex, swapVars, semVars, gpuVars,
                   result, imageIndex, width, height, acquireSemaphore,
                   submitInfo, presentInfo, entryVars, recorded, errVars,
                   copyVars, fnVars, pipeVars, devVars>>

\* lines 1979-1984 with the fence reset of line 1993 moved before them.
AcquireRebuildAfterReset ==
    /\ pc = "df_acquired"
    /\ acquireNeedsRebuild
    /\ inFlightFences' = [inFlightFences EXCEPT ![currentFrame + 1] = FALSE]
    /\ framebufferResized' = FALSE
    /\ caller' = "acquire"
    /\ pc' = "rc_size"
    /\ RebuildStarted
    /\ callLog' = Append(callLog, "rebuild")
    /\ UNCHANGED <<windowVars, frameVars, swapVars, semVars, commandBuffers,
                   outstanding, result, imageIndex, width, height,
                   acquireSemaphore, submitInfo, presentInfo, entryVars,
                   recorded, errVars,
                   copyVars, fnVars, pipeVars, devVars>>

\* lines 1979-1984: framebufferResized = false; recreateSwapChain(); return;
AcquireRebuild ==
    /\ pc = "df_acquired"
    /\ acquireNeedsRebuild
    /\ framebufferResized' = FALSE
    /\ caller' = "acquire"
    /\ pc' = "rc_size"
    /\ RebuildStarted
    /\ Logged("rebuild")
    /\ UNCHANGED <<windowVars, frameVars, swapVars, semVars, gpuVars, result,
                   imageIndex, width, height, acquireSemaphore, submitInfo,
                   presentInfo, entryVars, recorded,
                   errVars,
                   copyVars, fnVars, pipeVars, devVars>>

\* lines 1986-1989: throw std::runtime_error("failed to acquire swap chain image!")
AcquireThrow ==
    /\ pc = "df_acquired"
    /\ ~acquireNeedsRebuild
    /\ acquireFailed
    /\ Throw("failed to acquire swap chain image!")
    /\ Logged("throw")
    /\ UNCHANGED <<windowVars, framebufferResized, frameVars, swapVars,
                   semVars, gpuVars, localVars, acquireSemaphore, submitInfo,
                   presentInfo, sigVars, entryVars, recorded,
                   copyVars, fnVars, pipeVars, devVars>>

\* line 1991: updateUniformBuffer(currentFrame)
UpdateUniformBuffer ==
    /\ pc = "df_acquired"
    /\ ~acquireNeedsRebuild
    /\ ~acquireFailed
    /\ pc' = "df_resetFences"
    /\ Logged("update")
    /\ UNCHANGED <<windowVars, framebufferResized, frameVars, swapVars,
                   semVars, gpuVars, localVars, acquireSemaphore, submitInfo,
                   presentInfo, sigVars, entryVars, recorded,
                   errVars,
                   copyVars, fnVars, pipeVars, devVars>>

\* drawFrame with the fence left signaled at line 1993.
ResetFencesForgotten ==
    /\ pc = "df_resetFences"
    /\ pc' = "df_resetCommandBuffer"
    /\ callLog' = Append(callLog, "resetFences")
    /\ UNCHANGED <<windowVars, framebufferResized, frameVars, swapVars,
                   semVars, gpuVars, localVars, acquireSemaphore, submitInfo,
                   presentInfo, sigVars, entryVars, recorded,
                   errVars,
                   copyVars, fnVars, pipeVars, devVars>>

\* line 1993: device.resetFences(*inFlightFences[currentFrame])
ResetFences ==
    /\ pc = "df_resetFences"
    /\ inFlightFences' = [inFlightFences EXCEPT ![currentFrame + 1] = FALSE]
    /\ pc' = "df_resetCommandBuffer"
    /\ Logged("resetFences")
    /\ UNCHANGED <<windowVars, framebufferResized, frameVars, swapVars,
                   semVars, commandBuffers, outstanding, localVars,
                   acquireSemaphore, submitInfo, presentInfo, sigVars, entryVars, recorded,
                   errVars,
                   copyVars, fnVars, pipeVars, devVars>>

\* line 1994: commandBuffers[currentFrame].reset()
ResetCommandBuffer ==
    /\ pc = "df_resetCommandBuffer"
    /\ commandBuffers' = [commandBuffers EXCEPT ![currentFrame + 1] = "initial"]
    /\ pc' = "df_record"
    /\ Logged("resetCommandBuffer")
    /\ UNCHANGED <<windowVars, framebufferResized, frameVars, swapVars,
                   semVars, inFlightFences, outstanding, localVars,
                   acquireSemaphore, submitInfo, presentInfo, sigVars, entryVars, recorded,
                   errVars,
                   copyVars, fnVars, pipeVars, devVars>>

\* createDescriptorSets: descriptorSets[i] is written with the buffer info of
\* uniformBuffers[i]; the table gives, for each descriptor set, the index of
\* the uniform buffer a shader reads through it.
descriptorSets == [i \in Slots |-> i]

\* The uniform buffers the GPU reads when it executes the commands cmds: those
\* of the descriptor sets the commands bind.
UniformBuffersRead(cmds) ==
    {descriptorSets[cmds[i][2]] :
        i \in {j \in DOMAIN cmds : cmds[j][1] = "bindDescriptorSets"}}

\* transition_image_layout: one pipelineBarrier2 with one image barrier on
\* swapChainImages[img], from oldLayout to newLayout.
transition_image_layout(img, oldLayout, newLayout) ==
    <<"pipelineBarrier2", img, oldLayout, newLayout>>

\* recordCommandBuffer with the second transition left out.
recordCommandBufferNoPresentLayout(img) ==
    << <<"begin">>,
       transition_image_layout(img, "eUndefined", "eColorAttachmentOptimal"),
       <<"beginRendering", img, "eColorAttachmentOptimal">>,
       <<"bindPipeline">>,
       <<"bindVertexBuffers">>,
       <<"bindIndexBuffer">>,
       <<"setViewport">>,
       <<"setScissor">>,
       <<"bindDescriptorSets", currentFrame>>,
       <<"drawIndexed">>,
       <<"endRendering">>,
       <<"end">> >>

\* recordCommandBuffer binding the descriptor set of the next slot.
recordCommandBufferOtherSet(img) ==
    << <<"begin">>,
       transition_image_layout(img, "eUndefined", "eColorAttachmentOptimal"),
       <<"beginRendering", img, "eColorAttachmentOptimal">>,
       <<"bindPipeline">>,
       <<"bindVertexBuffers">>,
       <<"bindIndexBuffer">>,
       <<"setViewport">>,
       <<"setScissor">>,
       <<"bindDescriptorSets", (currentFrame + 1) % MAX_FRAMES_IN_FLIGHT>>,
       <<"drawIndexed">>,
       <<"endRendering">>,
       transition_image_layout(img, "eColorAttachmentOptimal", "ePresentSrcKHR"),
       <<"end">> >>

\* recordCommandBuffer(imageIndex): the commands it puts into
\* commandBuffers[currentFrame], in the order of lines 1869-1926; the
\* attachment of beginRendering is swapChainImageViews[img] in the
\* color-attachment layout.
recordCommandBuffer(img) ==
    << <<"begin">>,
       transition_image_layout(img, "eUndefined", "eColorAttachmentOptimal"),
       <<"beginRendering", img, "eColorAttachmentOptimal">>,
       <<"bindPipeline">>,
       <<"bindVertexBuffers">>,
       <<"bindIndexBuffer">>,
       <<"setViewport">>,
       <<"setScissor">>,
       <<"bindDescriptorSets", currentFrame>>,
       <<"drawIndexed">>,
       <<"endRendering">>,
       transition_image_layout(img, "eColorAttachmentOptimal", "ePresentSrcKHR"),
       <<"end">> >>

\* line 1995: recordCommandBuffer(imageIndex)
RecordCommandBuffer ==
    /\ pc = "df_record"
    /\ recorded' = recordCommandBuffer(imageIndex)
    /\ commandBuffers' = [commandBuffers EXCEPT ![currentFrame + 1] = "executable"]
    /\ pc' = "df_submit"
    /\ Logged("record")
    /\ UNCHANGED <<windowVars, framebufferResized, frameVars, swapVars,
                   semVars, inFlightFences, outstanding, localVars,
                   acquireSemaphore, submitInfo, presentInfo, sigVars, entryVars,
                   errVars,
                   copyVars, fnVars, pipeVars, devVars>>

\* lines 2018-2037: the vk::SubmitInfo with the handle h as pSignalSemaphores;
\* reads are the uniform buffers its command buffer makes the GPU read.
SubmitInfo(h) ==
    [wait |-> semaphoreIndex, cmd |-> currentFrame, signal |-> h,
     fence |-> currentFrame, reads |-> UniformBuffersRead(recorded)]

\* queue.submit(submitInfo, *inFlightFences[currentFrame])
Submit(info) ==
    /\ outstanding' = Append(outstanding, info)
    /\ commandBuffers' = [commandBuffers EXCEPT ![info.cmd + 1] = "pending"]
    /\ submitInfo' = {info}
    /\ pc' = "df_present"
    /\ Logged("submit")

\* lines 2018-2043 with renderFinishedSemaphores[imageIndex] an element of
\* the vector.
QueueSubmit ==
    /\ pc = "df_submit"
    /\ imageIndex < renderFinishedSemaphores
    /\ Submit(SubmitInfo(imageIndex))
    /\ UNCHANGED <<windowVars, framebufferResized, frameVars, swapVars,
                   semVars, inFlightFences, localVars, acquireSemaphore,
                   presentInfo, sigVars, entryVars, recorded,
                   errVars,
                   copyVars, fnVars, pipeVars, devVars>>

\* The same lines with imageIndex past the end of renderFinishedSemaphores:
\* the read is undefined, the process crashes ...
QueueSubmitCrash ==
    /\ pc = "df_submit"
    /\ imageIndex >= renderFinishedSemaphores
    /\ pc' = "crashed"
    /\ Logged("crash")
    /\ UNCHANGED <<windowVars, framebufferResized, frameVars, swapVars,
                   semVars, gpuVars, localVars, acquireSemaphore, submitInfo,
                   presentInfo, sigVars, entryVars, recorded,
                   errVars,
                   copyVars, fnVars, pipeVars, devVars>>

\* ... or goes on with whatever the memory past the end holds.
QueueSubmitGarbage ==
    /\ pc = "df_submit"
    /\ imageIndex >= renderFinishedSemaphores
    /\ Submit(SubmitInfo(GarbageHandle))
    /\ UNCHANGED <<windowVars, framebufferResized, frameVars, swapVars,
                   semVars, inFlightFences, localVars, acquireSemaphore,
                   presentInfo, sigVars, entryVars, recorded,
                   errVars,
                   copyVars, fnVars, pipeVars, devVars>>

\* lines 2054-2060: the vk::PresentInfoKHR.
PresentInfoKHR == [wait |-> semaphoreIndex, image |-> imageIndex]

\* line 2063: result = queue.presentKHR(presentInfoKHR)
QueuePresent ==
    /\ pc = "df_present"
    /\ presentInfo' = {PresentInfoKHR}
    /\ \E r \in PresentResults :
          /\ result' = r
          /\ IF IsStale(r) THEN SignalRaised ELSE UNCHANGED sigVars
    /\ pc' = "df_presented"
    /\ Logged("present")
    /\ UNCHANGED <<windowVars, framebufferResized, frameVars, swapVars,
                   semVars, gpuVars, imageIndex, width, height, caller,
                   acquireSemaphore, submitInfo, entryVars, recorded,
                   errVars,
                   copyVars, fnVars, pipeVars, devVars>>

\* line 2064 with only the out-of-date result leading to a rebuild.
presentNeedsRebuildNoSuboptimal ==
    result = "eErrorOutOfDateKHR" \/ framebufferResized

\* line 2064
presentNeedsRebuild ==
    result = "eErrorOutOfDateKHR" \/ result = "eSuboptimalKHR" \/ framebufferResized

\* line 2068
presentFailed == result # "eSuccess"

\* lines 2064-2067: framebufferResized = false; recreateSwapChain();
PresentRebuild ==
    /\ pc = "df_presented"
    /\ presentNeedsRebuild
    /\ framebufferResized' = FALSE
    /\ caller' = "present"
    /\ pc' = "rc_size"
    /\ IF result = "eSuccess" THEN SignalsServed ELSE RebuildStarted
    /\ Logged("rebuild")
    /\ UNCHANGED <<windowVars, frameVars, swapVars, semVars, gpuVars, result,
                   imageIndex, width, height, acquireSemaphore, submitInfo,
                   presentInfo, entryVars, recorded,
                   errVars,
                   copyVars, fnVars, pipeVars, devVars>>

\* lines 2068-2070: throw std::runtime_error("failed to present swap chain image!")
PresentThrow ==
    /\ pc = "df_presented"
    /\ ~presentNeedsRebuild
    /\ presentFailed
    /\ Throw("failed to present swap chain image!")
    /\ Logged("throw")
    /\ UNCHANGED <<windowVars, framebufferResized, frameVars, swapVars,
                   semVars, gpuVars, localVars, acquireSemaphore, submitInfo,
                   presentInfo, sigVars, entryVars, recorded,
                   copyVars, fnVars, pipeVars, devVars>>

\* neither branch of lines 2064-2070: the present succeeded.
PresentOk ==
    /\ pc = "df_presented"
    /\ ~presentNeedsRebuild
    /\ ~presentFailed
    /\ pc' = "df_advance"
    /\ SignalsServed
    /\ UNCHANGED <<windowVars, framebufferResized, frameVars, swapVars,
                   semVars, gpuVars, localVars, callVars,
                   errVars,
                   copyVars, fnVars, pipeVars, devVars>>

\* lines 2071-2072 with currentFrame wrapped at the number of semaphores.
AdvanceFrameWrongModulus ==
    /\ pc = "df_advance"
    /\ semaphoreIndex' = (semaphoreIndex + 1) % presentCompleteSemaphores
    /\ currentFrame' = (currentFrame + 1) % presentCompleteSemaphores
    /\ pc' = "loop"
    /\ result' = "eSuccess"
    /\ imageIndex' = 0
    /\ callLog' = Append(callLog, "advance")
    /\ UNCHANGED <<windowVars, framebufferResized, swapVars, semVars, gpuVars,
                   width, height, caller, acquireSemaphore, submitInfo,
                   presentInfo, sigVars, entryVars, recorded,
                   errVars,
                   copyVars, fnVars, pipeVars, devVars>>

\* lines 2071-2072, and drawFrame returns.
AdvanceFrame ==
    /\ pc = "df_advance"
    /\ semaphoreIndex' = (semaphoreIndex + 1) % presentCompleteSemaphores
    /\ currentFrame' = (currentFrame + 1) % MAX_FRAMES_IN_FLIGHT
    /\ pc' = "loop"
    /\ result' = "eSuccess"
    /\ imageIndex' = 0
    /\ Logged("advance")
    /\ UNCHANGED <<windowVars, framebufferResized, swapVars, semVars, gpuVars,
                   width, height, caller, acquireSemaphore, submitInfo,
                   presentInfo, sigVars, entryVars, recorded,
                   errVars,
                   copyVars, fnVars, pipeVars, devVars>>

\* ----------------------------------------------------- recreateSwapChain

\* lines 2095-2096: int width = 0, height = 0; glfwGetFramebufferSize(...)
RcGetSizeFirst ==
    /\ pc = "rc_size"
    /\ width' = fbWidth
    /\ height' = fbHeight
    /\ pc' = "rc_while"
    /\ UNCHANGED <<windowVars, framebufferResized, frameVars, swapVars,
                   semVars, gpuVars, result, imageIndex, caller, callVars,
                   sigVars,
                   errVars,
                   copyVars, fnVars, pipeVars, devVars>>

\* line 2097: while (width == 0 || height == 0)
RcLoopCond ==
    /\ pc = "rc_while"
    /\ pc' = IF width = 0 \/ height = 0 THEN "rc_getSize" ELSE "rc_waitIdle"
    /\ UNCHANGED <<windowVars, framebufferResized, frameVars, swapVars,
                   semVars, gpuVars, localVars, callVars, sigVars,
                   errVars,
                   copyVars, fnVars, pipeVars, devVars>>

\* line 2098: glfwGetFramebufferSize(window, &width, &height)
RcGetSize ==
    /\ pc = "rc_getSize"
    /\ width' = fbWidth
    /\ height' = fbHeight
    /\ pc' = "rc_waitEvents"
    /\ UNCHANGED <<windowVars, framebufferResized, frameVars, swapVars,
                   semVars, gpuVars, result, imageIndex, caller, callVars,
                   sigVars,
                   errVars,
                   copyVars, fnVars, pipeVars, devVars>>

\* line 2099: glfwWaitEvents()
RcWaitEvents ==
    /\ pc = "rc_waitEvents"
    /\ \E w \in Widths, h \in Heights, fired \in BOOLEAN, close \in BOOLEAN :
           DispatchEvents(w, h, fired, close)
    /\ pc' = "rc_while"
    /\ UNCHANGED <<frameVars, swapVars, semVars, gpuVars, localVars, callVars,
                   errVars,
                   copyVars, fnVars, pipeVars, devVars>>

\* recreateSwapChain without the device.waitIdle() of line 2102.
RcWaitIdleSkipped ==
    /\ pc = "rc_waitIdle"
    /\ pc' = "rc_clearViews"
    /\ UNCHANGED <<windowVars, framebufferResized, frameVars, swapVars,
                   semVars, gpuVars, localVars, callVars, sigVars,
                   errVars,
                   copyVars, fnVars, pipeVars, devVars>>

\* line 2102: device.waitIdle()
RcWaitIdle ==
    /\ pc = "rc_waitIdle"
    /\ outstanding = <<>>
    /\ pc' = "rc_clearViews"
    /\ UNCHANGED <<windowVars, framebufferResized, frameVars, swapVars,
                   semVars, gpuVars, localVars, callVars, sigVars,
                   errVars,
                   copyVars, fnVars, pipeVars, devVars>>

\* cleanupSwapChain, line 2116: swapChainImageViews.clear()
RcClearViews ==
    /\ pc = "rc_clearViews"
    /\ swapChainImageViews' = 0
    /\ pc' = "rc_destroySwapChain"
    /\ UNCHANGED <<windowVars, framebufferResized, frameVars, swapChain,
                   swapChainImages, semVars, gpuVars, localVars, callVars,
                   sigVars,
                   errVars,
                   copyVars, fnVars, pipeVars, devVars>>

\* cleanupSwapChain, line 2117: swapChain = nullptr
RcDestroySwapChain ==
    /\ pc = "rc_destroySwapChain"
    /\ swapChain' = FALSE
    /\ pc' = "rc_createSwapChain"
    /\ UNCHANGED <<windowVars, framebufferResized, frameVars, swapChainImages,
                   swapChainImageViews, semVars, gpuVars, localVars, callVars,
                   sigVars,
                   errVars,
                   copyVars, fnVars, pipeVars, devVars>>

\* line 2105: createSwapChain()
RcCreateSwapChain ==
    /\ pc = "rc_createSwapChain"
    /\ createSwapChain
    /\ pc' = "rc_createImageViews"
    /\ UNCHANGED <<windowVars, framebufferResized, frameVars,
                   swapChainImageViews, semVars, gpuVars, localVars,
                   callVars, sigVars,
                   errVars,
                   copyVars, fnVars, pipeVars, devVars>>

\* line 2106 with drawFrame returning after either call of recreateSwapChain.
RcCreateImageViewsThenReturn ==
    /\ pc = "rc_createImageViews"
    /\ createImageViews
    /\ width' = 0
    /\ height' = 0
    /\ pc' = "loop"
    /\ result' = "eSuccess"
    /\ imageIndex' = 0
    /\ UNCHANGED <<windowVars, framebufferResized, frameVars, swapChain,
                   swapChainImages, semVars, gpuVars, caller, callVars,
                   sigVars,
                   errVars,
                   copyVars, fnVars, pipeVars, devVars>>

\* line 2106: createImageViews(); recreateSwapChain returns to its call site:
\* after the one of line 1982 drawFrame returns, after the one of line 2066
\* it goes on to line 2071.
RcCreateImageViews ==
    /\ pc = "rc_createImageViews"
    /\ createImageViews
    /\ width' = 0
    /\ height' = 0
    /\ IF caller = "acquire"
       THEN pc' = "loop" /\ result' = "eSuccess" /\ imageIndex' = 0
       ELSE pc' = "df_advance" /\ UNCHANGED <<result, imageIndex>>
    /\ UNCHANGED <<windowVars, framebufferResized, frameVars, swapChain,
                   swapChainImages, semVars, gpuVars, caller, callVars,
                   sigVars,
                   errVars,
                   copyVars, fnVars, pipeVars, devVars>>

\* ----------------------------------------------------------------- GPU

\* The GPU finishes the oldest submission of the queue: the signal of its
\* wait semaphore is consumed, its fence and its signal semaphore are
\* signaled, its command buffer is no longer pending.
GpuComplete ==
    /\ outstanding # <<>>
    /\ LET s == Head(outstanding)
       IN /\ inFlightFences' = [inFlightFences EXCEPT ![s.fence + 1] = TRUE]
          /\ commandBuffers' = [commandBuffers EXCEPT ![s.cmd + 1] = "executable"]
          /\ signaledSemaphores' = signaledSemaphores \ {s.wait}
    /\ outstanding' = Tail(outstanding)
    /\ UNCHANGED <<pc, windowVars, framebufferResized, frameVars, swapVars,
                   presentCompleteSemaphores, renderFinishedSemaphores,
                   localVars, callVars, sigVars, errVars,
                   copyVars, fnVars, pipeVars, devVars>>

\* ------------------------------------------------------------------ Spec

Next ==
    \/ CreateInstance \/ CreateInstanceThrow
    \/ CreateSurface \/ CreateSurfaceThrow
    \/ PickPhysicalDevice \/ PickPhysicalDeviceThrow
    \/ CreateLogicalDevice \/ CreateLogicalDeviceThrow
    \/ InitCreateSwapChain \/ InitCreateImageViews
    \/ ReadFileThrow \/ CreatePipelineLayout \/ CreatePipeline
    \/ CreateVertexBufferStaging \/ CreateIndexBufferStaging
    \/ CreateDstBuffer \/ CopyRecord \/ CopySubmit \/ CopyWaitIdle
    \/ CopyReturn \/ CreateBufferReturn \/ CopyComplete
    \/ CreateStagingBufferThrow \/ CreateDstBufferThrow
    \/ InitCreateUniformBuffers \/ CreateUniformBuffersThrow
    \/ InitCreateCommandBuffers \/ InitCreateSyncObjects
    \/ MainLoopCond \/ PollEvents \/ MainWaitIdle \/ Cleanup
    \/ MainReturn \/ MainCatch
    \/ WaitForFences \/ AcquireNextImage
    \/ AcquireRebuild \/ AcquireThrow \/ UpdateUniformBuffer
    \/ ResetFences \/ ResetCommandBuffer \/ RecordCommandBuffer
    \/ QueueSubmit \/ QueueSubmitCrash \/ QueueSubmitGarbage
    \/ QueuePresent \/ PresentRebuild \/ PresentThrow \/ PresentOk
    \/ AdvanceFrame
    \/ RcGetSizeFirst \/ RcLoopCond \/ RcGetSize \/ RcWaitEvents
    \/ RcWaitIdle \/ RcClearViews \/ RcDestroySwapChain
    \/ RcCreateSwapChain \/ RcCreateImageViews
    \/ GpuComplete

Spec == Init /\ [][Next]_vars

\* A step of the program's one thread: every statement moves the program
\* counter, the GPU finishing a submission does not.
CpuStep == Next /\ pc' # pc

\* The thread runs whenever its next statement can (glfwPollEvents and
\* glfwWaitEvents return because events keep being delivered; fence waits and
\* waitIdle return once the GPU has done the work), and the GPU eventually
\* completes what was submitted.
FairSpec ==
    Spec /\ WF_vars(CpuStep) /\ WF_vars(GpuComplete) /\ WF_vars(CopyComplete)

\* ---------------------------------------------------------------- claims

InitPcs ==
    {"init_createInstance", "init_createSurface",
     "init_pickPhysicalDevice", "init_createLogicalDevice",
     "init_createSwapChain", "init_createImageViews",
     "init_createGraphicPipeline", "gp_createPipeline",
     "init_createVertexBuffer", "init_createIndexBuffer",
     "cb_createBuffer", "copy_record", "copy_submit", "copy_waitIdle",
     "copy_return", "cb_return",
     "init_createUniformBuffers",
     "init_createCommandBuffers", "init_createSyncObjects"}
RcPcs ==
    {"rc_size", "rc_while", "rc_getSize", "rc_waitEvents", "rc_waitIdle",
     "rc_clearViews", "rc_destroySwapChain", "rc_createSwapChain",
     "rc_createImageViews"}
\* the statements of mainLoop and drawFrame outside recreateSwapChain
FramePcs ==
    {"loop", "poll", "df_wait", "df_acquire", "df_acquired", "df_resetFences",
     "df_resetCommandBuffer", "df_record", "df_submit", "df_present",
     "df_presented", "df_advance"}

OutstandingOf(slot) == {i \in DOMAIN outstanding : outstanding[i].fence = slot}

\* C1: at most MAX_FRAMES_IN_FLIGHT submissions are outstanding (submitted,
\* fence not yet signaled), at most one of them per frame slot, and the fence
\* of a slot with an outstanding submission is unsignaled.
C1_OutstandingBounded ==
    /\ Len(outstanding) <= MAX_FRAMES_IN_FLIGHT
    /\ \A slot \in Slots :
          /\ Cardinality(OutstandingOf(slot)) <= 1
          /\ (OutstandingOf(slot) # {} /\ inFlightFences # <<>>)
                => ~inFlightFences[slot + 1]

\* Both frame slots have a submission outstanding while the CPU is in drawFrame.
C1_Witness ==
    /\ Len(outstanding) = MAX_FRAMES_IN_FLIGHT
    /\ pc = "df_wait"

\* C2: from the reset of commandBuffers[currentFrame] until its submission no
\* GPU submission of that command buffer is outstanding (it is not pending),
\* and the fence of the slot was waited for earlier in the same call.
C2_ResetAfterFence ==
    pc \in {"df_resetCommandBuffer", "df_record", "df_submit"} =>
        /\ \A i \in DOMAIN outstanding : outstanding[i].cmd # currentFrame
        /\ commandBuffers[currentFrame + 1] # "pending"
        /\ callLog[1] = "wait"

\* A command buffer is being re-recorded while the submission of the other
\* slot is still outstanding on the GPU.
C2_Witness ==
    /\ pc = "df_record"
    /\ Len(outstanding) = 1
    /\ outstanding[1].cmd # currentFrame
    /\ commandBuffers[currentFrame + 1] = "initial"

\* C3: in every frame that reaches present, the semaphore the present request
\* waits on is the semaphore this frame's submit signals.
C3_PresentWaitsOnSubmitSignal ==
    pc = "df_presented" =>
        \A p \in presentInfo : \A s \in submitInfo : p.wait = s.signal

\* C4: the submit waits on the semaphore handed to this frame's acquire,
\* submits the command buffer of the current slot, signals one of the
\* render-finished semaphores and the fence of the current slot.
C4_SubmitWiring ==
    pc = "df_present" =>
        \A s \in submitInfo :
            /\ s.wait = acquireSemaphore
            /\ s.cmd = currentFrame
            /\ s.fence = currentFrame
            /\ s.signal \in 0..(renderFinishedSemaphores - 1)

\* C5 as stated: when a present returns success, recreateSwapChain has run
\* exactly once since every resize/stale signal raised since the last
\* successful present.
C5_ExactlyOneRebuild ==
    (pc = "df_presented" /\ result = "eSuccess" /\ sigPending) =>
        /\ rebuiltSinceLast
        /\ rebuildsSinceFirst = 1

\* C5 as amended: when a present returns success, recreateSwapChain has run at
\* least once since every resize/stale signal raised since the last
\* successful present.
C5_AtLeastOneRebuild ==
    (pc = "df_presented" /\ result = "eSuccess" /\ sigPending) => rebuiltSinceLast

\* A present returns success after a signal that two rebuilds followed.
C5_Witness ==
    /\ pc = "df_presented"
    /\ result = "eSuccess"
    /\ sigPending
    /\ rebuiltSinceLast
    /\ rebuildsSinceFirst = 2

\* C6: when acquire reports out-of-date or framebufferResized is set at the
\* check of line 1979, the next step of drawFrame clears framebufferResized and
\* enters recreateSwapChain; and a call that entered recreateSwapChain from
\* there has, until it returns, reset no fence, recorded no command buffer,
\* submitted nothing and presented nothing.
C6_RebuildWithoutDrawing ==
    /\ [][(/\ pc = "df_acquired"
           /\ pc' # pc
           /\ (result = "eErrorOutOfDateKHR" \/ framebufferResized))
          => (/\ pc' = "rc_size"
              /\ caller' = "acquire"
              /\ ~framebufferResized')]_vars
    /\ []((caller = "acquire" /\ pc \in RcPcs \cup {"loop"})
          => (/\ callLog = <<"wait", "acquire", "rebuild">>
              /\ inFlightFences[currentFrame + 1]
              /\ commandBuffers[currentFrame + 1] # "pending"
              /\ submitInfo = {}
              /\ presentInfo = {}))

\* A rebuild that only the resize flag caused (acquire reported success) has
\* left its wait loop while the previous frame is still in flight.
C6_Witness ==
    /\ pc = "rc_waitIdle"
    /\ caller = "acquire"
    /\ result = "eSuccess"
    /\ outstanding # <<>>

\* C7: when recreateSwapChain leaves its wait loop, the framebuffer size the
\* window reports is nonzero in both dimensions.
C7_RebuildWithNonzeroSize ==
    pc = "rc_waitIdle" => (fbWidth # 0 /\ fbHeight # 0)

\* C8: recreateSwapChain runs its steps in order (nonzero size read, device
\* idle, image views destroyed, swapchain destroyed, swapchain created, image
\* views created); nothing is outstanding on the GPU from the destruction on;
\* and outside a rebuild there is one image view per swapchain image.
C8_RebuildOrder ==
    /\ pc \in {"rc_waitIdle", "rc_clearViews"} =>
          (width # 0 /\ height # 0 /\ swapChain /\ swapChainImageViews = swapChainImages)
    /\ pc \in {"rc_clearViews", "rc_destroySwapChain", "rc_createSwapChain",
               "rc_createImageViews"} => outstanding = <<>>
    /\ pc = "rc_destroySwapChain" => (swapChain /\ swapChainImageViews = 0)
    /\ pc = "rc_createSwapChain" => (~swapChain /\ swapChainImageViews = 0)
    /\ pc = "rc_createImageViews" => (swapChain /\ swapChainImageViews = 0)
    /\ pc \in FramePcs => (swapChain /\ swapChainImageViews = swapChainImages)

\* The swapchain is about to be destroyed in a call that had submitted a
\* frame, whose work the GPU has finished by now.
C8_Witness ==
    /\ pc = "rc_clearViews"
    /\ caller = "present"
    /\ submitInfo # {}
    /\ outstanding = <<>>

\* C9: in the frame loop there are MAX_FRAMES_IN_FLIGHT fences and as many
\* image-available and render-finished semaphores as swapchain images, so the
\* acquired image index and semaphoreIndex refer to existing semaphores.
C9_SyncObjectCounts ==
    pc \in FramePcs =>
        /\ Len(inFlightFences) = MAX_FRAMES_IN_FLIGHT
        /\ presentCompleteSemaphores = swapChainImages
        /\ renderFinishedSemaphores = swapChainImages
        /\ semaphoreIndex < presentCompleteSemaphores
        /\ imageIndex < renderFinishedSemaphores

\* C10: a result of acquire or present other than success, out-of-date or
\* suboptimal never leads into recreateSwapChain.
C10_OtherResultsAreFatal ==
    pc \in RcPcs => result \in {"eSuccess", "eSuboptimalKHR", "eErrorOutOfDateKHR"}

Count(seq, x) == Cardinality({i \in DOMAIN seq : seq[i] = x})

\* C11: when present reports out-of-date or suboptimal, the next step of
\* drawFrame enters recreateSwapChain (it does not throw); that call starts
\* exactly one rebuild and throws nothing until it returns; and after the
\* rebuild it advances semaphoreIndex and currentFrame by one from their values
\* at entry, then returns.
C11_StalePresentRebuildsAndAdvances ==
    /\ [][(pc = "df_presented" /\ IsStale(result) /\ pc' # pc)
          => (pc' = "rc_size" /\ caller' = "present")]_vars
    /\ [][(/\ pc = "df_advance"
           /\ caller = "present"
           /\ IsStale(result)
           /\ pc' # pc)
          => (/\ pc' = "loop"
              /\ Count(callLog', "rebuild") = 1
              /\ currentFrame' = (entryFrame + 1) % MAX_FRAMES_IN_FLIGHT
              /\ semaphoreIndex' = (entrySemaphore + 1) % presentCompleteSemaphores)]_vars
    /\ []((caller = "present" /\ IsStale(result) /\ pc \in RcPcs \cup {"df_advance"})
          => (/\ Count(callLog, "rebuild") = 1
              /\ Count(callLog, "throw") = 0
              /\ currentFrame = entryFrame
              /\ semaphoreIndex = entrySemaphore))

\* drawFrame has returned from a call whose present reported staleness: it
\* rebuilt the swapchain and advanced both indices.
C11_Witness ==
    /\ pc = "loop"
    /\ caller = "present"
    /\ sigPending
    /\ rebuiltSinceLast
    /\ callLog # <<>>
    /\ callLog[Len(callLog)] = "advance"
    /\ currentFrame # entryFrame

\* the steps of a drawFrame call that draws, in the order of the source
DrawSteps ==
    <<"wait", "acquire", "resetFences", "resetCommandBuffer", "record",
      "submit", "present">>

IsDrawStep(s) == \E i \in DOMAIN DrawSteps : DrawSteps[i] = s

IsPrefix(s, t) == Len(s) <= Len(t) /\ \A i \in DOMAIN s : s[i] = t[i]

\* C12: the steps one drawFrame call has executed are an initial part of
\* fence-wait, acquire, fence reset, command-buffer reset, record, submit,
\* present, each at most once and in that order; from the fence reset to the
\* submit the acquire of this call returned success; a present request was
\* made only after a submission of this call.
C12_StepOrder ==
    /\ IsPrefix(SelectSeq(callLog, IsDrawStep), DrawSteps)
    /\ pc \in {"df_resetFences", "df_resetCommandBuffer", "df_record", "df_submit"}
          => (result = "eSuccess" /\ Count(callLog, "acquire") = 1)
    /\ presentInfo # {} => submitInfo # {}

\* A call has gone through all its steps up to the present request.
C12_Witness ==
    /\ pc = "df_presented"
    /\ SelectSeq(callLog, IsDrawStep) = DrawSteps
    /\ submitInfo # {}
    /\ presentInfo # {}

\* C13: currentFrame is in [0, MAX_FRAMES_IN_FLIGHT) in every state, and where
\* drawFrame indexes inFlightFences and commandBuffers with it both have an
\* element at that index; so have the slots of the submissions in flight.
C13_CurrentFrameInRange ==
    /\ currentFrame \in 0..(MAX_FRAMES_IN_FLIGHT - 1)
    /\ pc \in {"df_wait", "df_resetFences", "df_resetCommandBuffer", "df_record",
               "df_submit"}
          => (/\ currentFrame + 1 \in DOMAIN inFlightFences
              /\ currentFrame + 1 \in DOMAIN commandBuffers)
    /\ \A i \in DOMAIN outstanding :
          /\ outstanding[i].fence + 1 \in DOMAIN inFlightFences
          /\ outstanding[i].cmd + 1 \in DOMAIN commandBuffers

\* The index has wrapped around: slot 0 is about to be submitted while the
\* submission of the last slot is still in flight.
C13_Witness ==
    /\ pc = "df_submit"
    /\ currentFrame = 0
    /\ \E i \in DOMAIN outstanding : outstanding[i].fence = MAX_FRAMES_IN_FLIGHT - 1

\* drawFrame has returned normally (callLog is empty until the first call)
Returned == pc = "loop" /\ callLog # <<>>

\* C14 as stated: every drawFrame call that returns normally has moved
\* currentFrame from its value i at entry to (i + 1) mod MAX_FRAMES_IN_FLIGHT.
C14_EveryCallAdvances ==
    Returned => currentFrame = (entryFrame + 1) % MAX_FRAMES_IN_FLIGHT

\* C14 as amended: a drawFrame call that returns normally after its present
\* request has moved currentFrame from its value i at entry to
\* (i + 1) mod MAX_FRAMES_IN_FLIGHT; a call that returns through the rebuild of
\* lines 1979-1984 has presented nothing and left currentFrame as it was; and
\* until a call returns currentFrame keeps its value at entry.
C14_DrawnFramesAdvance ==
    /\ Returned =>
          IF Count(callLog, "present") = 1
          THEN currentFrame = (entryFrame + 1) % MAX_FRAMES_IN_FLIGHT
          ELSE caller = "acquire" /\ currentFrame = entryFrame
    /\ (pc \in (FramePcs \cup RcPcs) \ {"loop", "poll"}) => currentFrame = entryFrame

\* A call that presented has returned and wrapped the slot index around.
C14_Witness ==
    /\ Returned
    /\ Count(callLog, "present") = 1
    /\ entryFrame = MAX_FRAMES_IN_FLIGHT - 1
    /\ currentFrame = 0

\* the statements inside the while loop of mainLoop, its condition included
LoopPcs == FramePcs \cup RcPcs

\* C15: the only step that leaves the loop of mainLoop, other than a throw (or
\* the process dying in the out-of-range read of line 2036), is the loop
\* condition seeing glfwWindowShouldClose; from there the only way on is
\* device.waitIdle, and when cleanup runs, and from then on, the window was
\* asked to close and no submission is outstanding on the GPU.
C15_OnlyExitIsWindowClose ==
    /\ [][(pc \in LoopPcs /\ pc' \notin LoopPcs)
          => \/ (pc = "loop" /\ windowShouldClose /\ pc' = "drain")
             \/ pc' \in {"thrown", "crashed"}]_vars
    /\ [][(pc = "drain" /\ pc' # pc)
          => (pc' = "cleanup" /\ outstanding = <<>>)]_vars
    /\ [](pc \in {"drain", "cleanup", "done", "exit_success"} => windowShouldClose)
    /\ [](pc \in {"cleanup", "done", "exit_success"} => outstanding = <<>>)

\* cleanup is about to run after a last frame was submitted and has finished
\* on the GPU.
C15_Witness ==
    /\ pc = "cleanup"
    /\ windowShouldClose
    /\ submitInfo # {}
    /\ outstanding = <<>>

\* C17: every throw inside Run (initVulkan or drawFrame) leaves an exception
\* in flight whose only continuation is the catch block of main, which writes
\* its message to std::cerr and returns EXIT_FAILURE; main returns
\* EXIT_SUCCESS only from Run having returned, with nothing written to
\* std::cerr; and once an exception is in flight this program executes no
\* further step of a frame.
C17_ErrorsUnwindToMain ==
    /\ [][(exception' # exception) => (pc' = "thrown" /\ exception' # "")]_vars
    /\ [][(pc = "thrown" /\ pc' # pc)
          => (pc' = "exit_failure" /\ cerr' = <<exception>>)]_vars
    /\ [][(pc' = "exit_success" /\ pc' # pc) => pc = "done"]_vars
    /\ [][(pc \in {"thrown", "exit_failure"})
          => (/\ pc' \in {"thrown", "exit_failure"}
              /\ UNCHANGED <<callVars, frameVars, swapVars>>)]_vars
    /\ [](pc \in {"thrown", "exit_failure"} <=> exception # "")
    /\ [](pc = "exit_failure" <=> cerr # <<>>)
    /\ [](pc = "exit_success" => (exception = "" /\ cerr = <<>>))

\* main has returned EXIT_FAILURE after the present of a frame failed.
C17_Witness ==
    /\ pc = "exit_failure"
    /\ cerr = <<"failed to present swap chain image!">>
    /\ Count(callLog, "submit") = 1

\* C18: every fence is signaled or is the fence of exactly one outstanding
\* submission, except the fence of the current slot between its reset at line
\* 1993 and the submit of line 2042 of the same call (or the death of the
\* process); a call that returns through the rebuild of lines 1979-1984 has
\* left the fence of its slot signaled; and, the GPU completing what was
\* submitted, the fence wait of line 1971 always returns.
C18_FenceSignaledOrTied ==
    /\ [](\A slot \in Slots :
             inFlightFences # <<>> =>
                 \/ inFlightFences[slot + 1] /\ OutstandingOf(slot) = {}
                 \/ ~inFlightFences[slot + 1] /\ Cardinality(OutstandingOf(slot)) = 1
                 \/ /\ slot = currentFrame
                    /\ pc \in {"df_resetCommandBuffer", "df_record", "df_submit", "crashed"}
                    /\ ~inFlightFences[slot + 1]
                    /\ OutstandingOf(slot) = {})
    /\ []((caller = "acquire" /\ pc \in RcPcs \cup {"loop"})
             => inFlightFences[currentFrame + 1])
    /\ (pc = "df_wait") ~> (pc = "df_acquire")

\* drawFrame waits at line 1971 for a fence that is unsignaled and tied to the
\* one submission of its slot still in flight.
C18_Witness ==
    /\ pc = "df_wait"
    /\ ~inFlightFences[currentFrame + 1]
    /\ Cardinality(OutstandingOf(currentFrame)) = 1

\* the program has left the main loop for good: cleanup is reached, or a
\* fatal error (or the death of the process) has ended the run
Ended == pc \in {"cleanup", "done", "exit_success", "thrown", "exit_failure", "crashed"}

\* C16: once the window was asked to close, the program eventually leaves the
\* main loop, drains the GPU and reaches cleanup (or ends in a fatal error),
\* wherever in the loop it is, also inside the wait loop of recreateSwapChain.
C16_CloseLeadsToCleanup == windowShouldClose ~> Ended

\* C19: when drawFrame is about to pass presentCompleteSemaphores[semaphoreIndex]
\* to acquireNextImage, that semaphore has no signal that the wait of a
\* submission has not consumed.
C19_AcquireSemaphoreUnsignaled ==
    pc = "df_acquire" => semaphoreIndex \notin signaledSemaphores

\* positions of the commands of a recorded command buffer
Positions(cmds, op) == {i \in DOMAIN cmds : cmds[i][1] = op}

IsBarrier(c, img, oldLayout, newLayout) ==
    c = <<"pipelineBarrier2", img, oldLayout, newLayout>>

\* C20: the command buffer recordCommandBuffer has recorded starts with begin
\* and ends with end, once each; has one beginRendering/endRendering pair
\* inside them, on the view of the acquired image; has all its draw commands
\* inside that pair; transitions the acquired image from undefined to
\* color-attachment before beginRendering and from color-attachment to
\* present-source after endRendering, with no other barrier; that image is
\* the one acquire returned in this call; and a present request of the call
\* comes after the submission of this command buffer and names the image of
\* those transitions.
C20_RecordedLayoutTransitions ==
    /\ (recorded # <<>>) =>
        LET n == Len(recorded)
            img == recorded[2][2]
            begins == Positions(recorded, "beginRendering")
            ends == Positions(recorded, "endRendering")
            draws == Positions(recorded, "drawIndexed")
            barriers == Positions(recorded, "pipelineBarrier2")
        IN /\ Positions(recorded, "begin") = {1}
           /\ Positions(recorded, "end") = {n}
           /\ \E b \in begins, e \in ends :
                 /\ begins = {b}
                 /\ ends = {e}
                 /\ recorded[b] = <<"beginRendering", img, "eColorAttachmentOptimal">>
                 /\ draws # {}
                 /\ \A d \in draws : b < d /\ d < e
                 /\ \E t1 \in barriers, t2 \in barriers :
                       /\ barriers = {t1, t2}
                       /\ 1 < t1 /\ t1 < b
                       /\ e < t2 /\ t2 < n
                       /\ IsBarrier(recorded[t1], img,
                                    "eUndefined", "eColorAttachmentOptimal")
                       /\ IsBarrier(recorded[t2], img,
                                    "eColorAttachmentOptimal", "ePresentSrcKHR")
           /\ pc \in {"df_submit", "df_present", "df_presented"}
                 => (img = imageIndex /\ img < swapChainImages)
           /\ \A p \in presentInfo :
                 /\ p.image = img
                 /\ \E sub \in submitInfo : sub.cmd = entryFrame
    /\ presentInfo # {} => recorded # <<>>

\* A frame has been presented whose command buffer was recorded for an image
\* other than image 0.
C20_Witness ==
    /\ pc = "df_presented"
    /\ recorded # <<>>
    /\ imageIndex = 2
    /\ \E p \in presentInfo : p.image = 2

\* updateUniformBuffer(currentFrame) is the next statement, or was the last one
AtUniformWrite ==
    \/ pc = "df_acquired" /\ ~acquireNeedsRebuild /\ ~acquireFailed
    \/ pc = "df_resetFences"

\* C21: while updateUniformBuffer writes uniformBuffersMapped[currentFrame], no
\* submission outstanding on the GPU reads that uniform buffer; every
\* submission reads exactly the uniform buffer of its own slot; and the
\* command buffer recorded in slot i binds descriptorSets[i] and nothing else,
\* which refers to uniformBuffers[i].
C21_UniformWriteNeverOverlapsRead ==
    /\ AtUniformWrite =>
          \A i \in DOMAIN outstanding : currentFrame \notin outstanding[i].reads
    /\ \A i \in DOMAIN outstanding : outstanding[i].reads = {outstanding[i].cmd}
    /\ recorded # <<>> =>
          /\ {recorded[i][2] : i \in Positions(recorded, "bindDescriptorSets")}
                = {entryFrame}
          /\ descriptorSets[entryFrame] = entryFrame

\* The uniform buffer of one slot has just been written while the GPU still
\* executes the submission that reads the uniform buffer of the other slot.
C21_Witness ==
    /\ pc = "df_resetFences"
    /\ \E i \in DOMAIN outstanding : outstanding[i].reads = {(currentFrame + 1) % MAX_FRAMES_IN_FLIGHT}

\* C22: the statements of a drawFrame call on the rebuild-and-return path of
\* lines 1979-1984, recreateSwapChain included, leave currentFrame,
\* semaphoreIndex, the fences, the command buffers, the submissions in flight
\* and the semaphores as they are; the branch sets framebufferResized to
\* false; and when the call has returned both indices have their values at
\* entry and the call has reset no fence and no command buffer.
C22_EarlyReturnChangesOnlySwapchain ==
    /\ [][(caller' = "acquire" /\ pc' \in RcPcs \cup {"loop"} /\ pc' # pc)
          => UNCHANGED <<frameVars, gpuVars, semVars, submitInfo, presentInfo,
                         recorded>>]_vars
    /\ [][(pc = "df_acquired" /\ pc' = "rc_size") => ~framebufferResized']_vars
    /\ []((Returned /\ caller = "acquire")
          => (/\ currentFrame = entryFrame
              /\ semaphoreIndex = entrySemaphore
              /\ Count(callLog, "resetFences") = 0
              /\ Count(callLog, "resetCommandBuffer") = 0
              /\ swapChain
              /\ swapChainImageViews = swapChainImages))

\* A call has returned through the rebuild with both indices away from zero
\* and a frame of the other slot still in flight.
C22_Witness ==
    /\ Returned
    /\ caller = "acquire"
    /\ currentFrame = 1
    /\ semaphoreIndex = 2
    /\ ~framebufferResized

\* C23: copyBuffer returns only after the GPU has executed the copy it
\* submitted; while the copy is pending its staging buffer is alive; the
\* staging buffer is destroyed only after the copy has completed; the copy
\* command buffer is freed only when it is no longer pending; and from the
\* return of createIndexBuffer on, so in every frame, the vertex buffer and
\* the index buffer hold their complete data.
C23_CopyCompletesBeforeRelease ==
    /\ [](pc \in {"copy_return", "cb_return"}
             => (commandCopyBuffer # "pending" /\ dstBuffer \in filled))
    /\ [](commandCopyBuffer = "pending" => stagingBuffer = "alive")
    /\ [][(stagingBuffer' = "destroyed" /\ stagingBuffer # "destroyed")
          => \/ commandCopyBuffer = "freed" /\ dstBuffer \in filled
             \/ commandCopyBuffer' = "none" /\ pc' = "thrown"]_vars
    /\ [][(commandCopyBuffer' = "freed" /\ commandCopyBuffer # "freed")
          => commandCopyBuffer = "invalid"]_vars
    /\ [](pc \in {"init_createUniformBuffers", "init_createCommandBuffers",
                  "init_createSyncObjects"} \cup LoopPcs
             => filled = {"vertexBuffer", "indexBuffer"})

\* createIndexBuffer has returned: its staging buffer is destroyed, its copy
\* command buffer freed, both device-local buffers are filled.
C23_Witness ==
    /\ pc = "init_createCommandBuffers"
    /\ dstBuffer = "indexBuffer"
    /\ stagingBuffer = "destroyed"
    /\ commandCopyBuffer = "freed"
    /\ filled = {"vertexBuffer", "indexBuffer"}

\* ------------------------------------------- findMemoryType on its own

MemoryTypeTables ==
    UNION {[1..n -> MemoryPropertyFlags] : n \in 0..MaxTypes}

\* A call of findMemoryType is about to run: its arguments and the table
\* physicalDevice.getMemoryProperties() returns.
InitFindMemoryType ==
    /\ pc = "findMemoryType"
    /\ initWindow
    /\ Members
    /\ physicalDevice = 1
    /\ queueIndex = 0
    /\ device = <<1, 0>>
    /\ input \in [typeFilter : 0..(Pow2(MaxTypes) - 1),
                  properties : MemoryPropertyFlags,
                  memoryTypes : MemoryTypeTables]
    /\ output = <<>>

\* return i;
FindMemoryTypeReturn ==
    /\ pc = "findMemoryType"
    /\ LET i == findMemoryTypeLoop(0, input.typeFilter, input.properties,
                                   input.memoryTypes)
       IN /\ i < Len(input.memoryTypes)
          /\ output' = <<i>>
    /\ pc' = "findMemoryType_returned"
    /\ UNCHANGED <<windowVars, framebufferResized, frameVars, swapVars,
                   semVars, gpuVars, localVars, callVars, sigVars, errVars,
                   copyVars, input, pipeVars, devVars>>

\* throw std::runtime_error("failed to find suitable memory type!");
FindMemoryTypeThrow ==
    /\ pc = "findMemoryType"
    /\ findMemoryTypeLoop(0, input.typeFilter, input.properties,
                          input.memoryTypes) = Len(input.memoryTypes)
    /\ Throw("failed to find suitable memory type!")
    /\ UNCHANGED <<windowVars, framebufferResized, frameVars, swapVars,
                   semVars, gpuVars, localVars, callVars, sigVars,
                   copyVars, fnVars, pipeVars, devVars>>

NextFindMemoryType == FindMemoryTypeReturn \/ FindMemoryTypeThrow

SpecFindMemoryType == InitFindMemoryType /\ [][NextFindMemoryType]_vars

\* ------------------------------------------------------------------ C25
\* bit b of the unsigned integer x is set
BitSet(x, b) == (x \div Pow2(b)) % 2 = 1

\* the indices the claim calls suitable
SuitableTypes ==
    {i \in 0..(Len(input.memoryTypes) - 1) :
        /\ BitSet(input.typeFilter, i)
        /\ \A b \in 0..2 : BitSet(input.properties, b)
                              => BitSet(input.memoryTypes[i + 1], b)}

\* C25: findMemoryType returns the smallest index below memoryTypeCount whose
\* bit is set in typeFilter and whose propertyFlags contain every requested
\* flag, and throws "failed to find suitable memory type!" exactly when there
\* is no such index.
C25_FindMemoryTypeSmallestSuitable ==
    pc \in {"findMemoryType_returned", "thrown"} =>
        IF SuitableTypes = {}
        THEN pc = "thrown" /\ exception = "failed to find suitable memory type!"
        ELSE /\ pc = "findMemoryType_returned"
             /\ output[1] \in SuitableTypes
             /\ \A i \in SuitableTypes : output[1] <= i

\* a call that skipped an index allowed by the filter but lacking a flag, and
\* returned a later one although a still later one is suitable too
C25_Witness ==
    /\ pc = "findMemoryType_returned"
    /\ output = <<1>>
    /\ BitSet(input.typeFilter, 0)
    /\ 2 \in SuitableTypes

\* --------------------------------------- createLogicalDevice on its own

\* a physical device has up to MaxFamilies queue families
MaxFamilies == 3

QueueFamilyTables == UNION {[1..n -> QueueFamilies] : n \in 0..MaxFamilies}

\* pickPhysicalDevice has selected the only device of the machine, a device
\* its lambda accepts, and createLogicalDevice is about to run.
InitCreateLogicalDevice ==
    /\ pc = "init_createLogicalDevice"
    /\ initWindow
    /\ Members
    /\ physicalDevice = 1
    /\ queueIndex = UINT32_MAX
    /\ device = <<>>
    /\ input \in [devices : {<<d>> : d \in {PhysicalDevice(AllCapabilities, fams) :
                                               fams \in QueueFamilyTables}}]
    /\ isDeviceSuitable(input.devices[1])
    /\ output = <<>>

NextCreateLogicalDevice == CreateLogicalDevice \/ CreateLogicalDeviceThrow

SpecCreateLogicalDevice ==
    InitCreateLogicalDevice /\ [][NextCreateLogicalDevice]_vars

\* ------------------------------------------------------------------ C26
\* the queue families of the selected device that draw and present
GraphicsPresentFamilies ==
    LET fams == input.devices[physicalDevice].queueFamilies
    IN {i \in 0..(Len(fams) - 1) : fams[i + 1].graphics /\ fams[i + 1].present}

\* C26: createLogicalDevice selects the lowest-indexed queue family of the
\* chosen device that supports graphics and presentation, throws "Could not
\* find a queue for graphics and present" exactly when no family supports
\* both, and creates the device and the queue only with a selected index,
\* never with the unset index.
C26_LowestGraphicsPresentFamily ==
    /\ pc = "init_createLogicalDevice" => device = <<>>
    /\ pc = "init_createSwapChain" =>
          /\ queueIndex \in GraphicsPresentFamilies
          /\ \A i \in GraphicsPresentFamilies : queueIndex <= i
          /\ device = <<physicalDevice, queueIndex>>
    /\ pc = "thrown" =>
          /\ GraphicsPresentFamilies = {}
          /\ exception = "Could not find a queue for graphics and present -> terminating"
          /\ device = <<>>
    /\ device # <<>> => device[2] # UINT32_MAX

\* family 0 draws only, family 1 presents only, family 2 does both and is
\* the one the device was created with
C26_Witness ==
    /\ pc = "init_createSwapChain"
    /\ device = <<1, 2>>
    /\ input.devices[1].queueFamilies[1] = [graphics |-> TRUE, present |-> FALSE]
    /\ input.devices[1].queueFamilies[2] = [graphics |-> FALSE, present |-> TRUE]

\* ------------------------- pickPhysicalDevice and createLogicalDevice

\* enumeratePhysicalDevices returns up to MaxDevices devices
MaxDevices == 2

PhysicalDevices ==
    {PhysicalDevice(cap, fams) : cap \in DeviceCapabilities,
                                 fams \in QueueFamilyTables}

\* initVulkan is about to run pickPhysicalDevice on a machine with any
\* devices, enumerated in any order.
InitSelectDevice ==
    /\ pc = "init_pickPhysicalDevice"
    /\ initWindow
    /\ Members
    /\ physicalDevice = 0
    /\ queueIndex = UINT32_MAX
    /\ device = <<>>
    /\ input \in [devices : UNION {[1..n -> PhysicalDevices] : n \in 0..MaxDevices}]
    /\ output = <<>>

NextSelectDevice ==
    \/ PickPhysicalDevice \/ PickPhysicalDeviceThrow
    \/ CreateLogicalDevice \/ CreateLogicalDeviceThrow

SpecSelectDevice == InitSelectDevice /\ [][NextSelectDevice]_vars

\* ------------------------------------------------------------------ C27
\* the device meets the requirements and has a queue family that draws and
\* presents
Usable(d) ==
    /\ d.apiVersion1_3 /\ d.extensions /\ d.features
    /\ \E i \in 1..Len(d.queueFamilies) :
           d.queueFamilies[i].graphics /\ d.queueFamilies[i].present

\* C27: if some enumerated device meets the requirements and has a queue
\* family for graphics and presentation, initialization selects such a
\* device and fails neither with the queue-not-found error nor with the
\* no-suitable-GPU error, whatever the order of the devices.
C27_UsableDeviceIsSelected ==
    (\E i \in 1..Len(input.devices) : Usable(input.devices[i])) =>
        /\ exception = ""
        /\ pc = "init_createLogicalDevice" => Usable(input.devices[physicalDevice])
        /\ pc = "init_createSwapChain" => Usable(input.devices[device[1]])

\* ------------------------------------------------------ chooseSwapExtent

\* extents and framebuffer sizes range over 0..MaxExtent, extents also over
\* UINT32_MAX
MaxExtent == 2

ExtentValues == 0..MaxExtent \cup {UINT32_MAX}

\* a < b on uint32_t values
ULess(a, b) == IF (a < 0) = (b < 0) THEN a < b ELSE b < 0

\* std::clamp<uint32_t>(v, lo, hi): (v < lo) ? lo : (hi < v) ? hi : v. The int
\* argument is converted to uint32_t, which keeps its bits.
clampSigned(v, lo, hi) == IF v < lo THEN lo ELSE IF hi < v THEN hi ELSE v

clamp(v, lo, hi) == IF ULess(v, lo) THEN lo ELSE IF ULess(hi, v) THEN hi ELSE v

\* extents are <<width, height>>
chooseSwapExtent(capabilities) ==
    IF capabilities.currentExtent[1] # UINT32_MAX
    THEN capabilities.currentExtent
    ELSE <<clamp(fbWidth, capabilities.minImageExtent[1],
                 capabilities.maxImageExtent[1]),
           clamp(fbHeight, capabilities.minImageExtent[2],
                 capabilities.maxImageExtent[2])>>

\* vk::SurfaceCapabilitiesKHR as far as chooseSwapExtent reads it; the
\* device reports minImageExtent <= maxImageExtent in both dimensions.
SurfaceCapabilities ==
    {c \in [currentExtent : ExtentValues \X ExtentValues,
            minImageExtent : ExtentValues \X ExtentValues,
            maxImageExtent : ExtentValues \X ExtentValues] :
        /\ ~ULess(c.maxImageExtent[1], c.minImageExtent[1])
        /\ ~ULess(c.maxImageExtent[2], c.minImageExtent[2])}

\* createSwapChain is about to call chooseSwapExtent(surfaceCapabilities)
\* while the window's framebuffer has some size.
InitChooseSwapExtent ==
    /\ pc = "chooseSwapExtent"
    /\ windowShouldClose = FALSE
    /\ fbWidth \in 0..MaxExtent
    /\ fbHeight \in 0..MaxExtent
    /\ Members
    /\ physicalDevice = 1
    /\ queueIndex = 0
    /\ device = <<1, 0>>
    /\ input \in [capabilities : SurfaceCapabilities]
    /\ output = <<>>

ChooseSwapExtent ==
    /\ pc = "chooseSwapExtent"
    /\ output' = chooseSwapExtent(input.capabilities)
    /\ pc' = "chooseSwapExtent_returned"
    /\ UNCHANGED <<windowVars, framebufferResized, frameVars, swapVars,
                   semVars, gpuVars, localVars, callVars, sigVars, errVars,
                   copyVars, input, pipeVars, devVars>>

NextChooseSwapExtent == ChooseSwapExtent

SpecChooseSwapExtent == InitChooseSwapExtent /\ [][NextChooseSwapExtent]_vars

\* ------------------------------------------------------------------ C28
\* r is v clamped into [lo, hi] as uint32_t values
ClampedInto(r, v, lo, hi) ==
    /\ ~ULess(r, lo) /\ ~ULess(hi, r)
    /\ (~ULess(v, lo) /\ ~ULess(hi, v)) => r = v
    /\ ULess(v, lo) => r = lo
    /\ ULess(hi, v) => r = hi

\* C28: chooseSwapExtent returns currentExtent unchanged whenever
\* currentExtent.width is not UINT32_MAX; otherwise it returns the
\* framebuffer size with width and height each clamped into
\* [minImageExtent, maxImageExtent], so the result lies within that range.
C28_ExtentCurrentOrClamped ==
    pc = "chooseSwapExtent_returned" =>
        LET caps == input.capabilities
        IN IF caps.currentExtent[1] # UINT32_MAX
           THEN output = caps.currentExtent
           ELSE /\ ClampedInto(output[1], fbWidth, caps.minImageExtent[1],
                               caps.maxImageExtent[1])
                /\ ClampedInto(output[2], fbHeight, caps.minImageExtent[2],
                               caps.maxImageExtent[2])

\* the special current extent, a framebuffer wider than the maximum and
\* lower than the minimum: both dimensions were changed by the clamp
C28_Witness ==
    /\ pc = "chooseSwapExtent_returned"
    /\ input.capabilities.currentExtent[1] = UINT32_MAX
    /\ ULess(input.capabilities.maxImageExtent[1], fbWidth)
    /\ ULess(fbHeight, input.capabilities.minImageExtent[2])
    /\ output = <<input.capabilities.maxImageExtent[1],
                  input.capabilities.minImageExtent[2]>>

\* ------------------- the program of the header: lines 1-931 of the file

\* The header of the repository declares the members of the first version
\* in HelloTriangleApp.cpp (lines 1-931): no index buffer, no uniform
\* buffers, no descriptor sets, and pipelineLayout as a vk::PipelineLayout.
\* Its createInstance, createSurface, pickPhysicalDevice,
\* createLogicalDevice, createSwapChain, createImageViews, readFile,
\* createCommandBuffers, createSyncObjects, mainLoop, recreateSwapChain and
\* main are the same text as in the last version, and its drawFrame is the
\* same without the call of updateUniformBuffer; the steps that differ follow.

\* pipelineLayout = vk::raii::PipelineLayout(device, pipelineLayoutInfo);
\* The member is a plain handle that owns nothing: the temporary creates the
\* layout, its conversion operator yields the handle that is stored, and at
\* the end of the statement the destructor of the temporary destroys the
\* layout the stored handle names.
CreatePipelineLayoutHandle ==
    /\ pc = "init_createGraphicPipeline"
    /\ input.shaderFile
    /\ pipelineLayout' = "destroyed"
    /\ pc' = "gp_createPipeline"
    /\ UNCHANGED <<windowVars, framebufferResized, frameVars, swapVars,
                   semVars, gpuVars, localVars, callVars, sigVars, errVars,
                   copyVars, fnVars, graphicsPipeline, devVars>>

\* graphicsPipeline = vk::raii::Pipeline(device, nullptr, pipelineInfo) with
\* .layout = pipelineLayout, the handle of a destroyed layout: the behaviour
\* is undefined. The driver either does not look behind the handle and
\* returns a pipeline, or follows it into freed memory and the process dies.
CreatePipelineFromHandle ==
    /\ pc = "gp_createPipeline"
    /\ \/ graphicsPipeline' = TRUE /\ pc' = "init_createVertexBuffer"
       \/ graphicsPipeline' = FALSE /\ pc' = "crashed"
    /\ UNCHANGED <<windowVars, framebufferResized, frameVars, swapVars,
                   semVars, gpuVars, localVars, callVars, sigVars, errVars,
                   copyVars, fnVars, pipelineLayout, devVars>>

\* createVertexBuffer of lines 866-907: the vertex buffer gets host-visible
\* memory and the vertices are written into it through a mapping.
CreateVertexBufferMapped ==
    /\ pc = "init_createVertexBuffer"
    /\ \E memoryTypeBits \in MemoryTypeBits :
           memoryTypeFound(memoryTypeBits, eHostVisible + eHostCoherent)
    /\ filled' = filled \cup {"vertexBuffer"}
    /\ pc' = "init_createCommandBuffers"
    /\ UNCHANGED <<windowVars, framebufferResized, frameVars, swapVars,
                   semVars, gpuVars, localVars, callVars, sigVars, errVars,
                   dstBuffer, stagingBuffer, commandCopyBuffer, fnVars,
                   pipeVars, devVars>>

\* findMemoryType throws in it (line 930)
CreateVertexBufferMappedThrow ==
    /\ pc = "init_createVertexBuffer"
    /\ \E memoryTypeBits \in MemoryTypeBits :
           ~memoryTypeFound(memoryTypeBits, eHostVisible + eHostCoherent)
    /\ Throw("failed to find suitable memory type!")
    /\ UNCHANGED <<windowVars, framebufferResized, frameVars, swapVars,
                   semVars, gpuVars, localVars, callVars, sigVars,
                   copyVars, fnVars, pipeVars, devVars>>

\* drawFrame of lines 709-815 after acquireNextImage: neither of the two
\* checks of the result applies and resetFences is next.
AcquireOk ==
    /\ pc = "df_acquired"
    /\ ~acquireNeedsRebuild
    /\ ~acquireFailed
    /\ pc' = "df_resetFences"
    /\ UNCHANGED <<windowVars, framebufferResized, frameVars, swapVars,
                   semVars, gpuVars, localVars, callVars, sigVars, errVars,
                   copyVars, fnVars, pipeVars, devVars>>

\* recordCommandBuffer of lines 621-671
recordCommandBufferDraw(img) ==
    << <<"begin">>,
       transition_image_layout(img, "eUndefined", "eColorAttachmentOptimal"),
       <<"beginRendering", img, "eColorAttachmentOptimal">>,
       <<"bindPipeline">>,
       <<"bindVertexBuffers">>,
       <<"setViewport">>,
       <<"setScissor">>,
       <<"draw">>,
       <<"endRendering">>,
       transition_image_layout(img, "eColorAttachmentOptimal", "ePresentSrcKHR"),
       <<"end">> >>

RecordCommandBufferDraw ==
    /\ pc = "df_record"
    /\ recorded' = recordCommandBufferDraw(imageIndex)
    /\ commandBuffers' = [commandBuffers EXCEPT ![currentFrame + 1] = "executable"]
    /\ pc' = "df_submit"
    /\ Logged("record")
    /\ UNCHANGED <<windowVars, framebufferResized, frameVars, swapVars,
                   semVars, inFlightFences, outstanding, localVars,
                   acquireSemaphore, submitInfo, presentInfo, sigVars, entryVars,
                   errVars,
                   copyVars, fnVars, pipeVars, devVars>>

NextFirstVersion ==
    \/ CreateInstance \/ CreateInstanceThrow
    \/ CreateSurface \/ CreateSurfaceThrow
    \/ PickPhysicalDevice \/ PickPhysicalDeviceThrow
    \/ CreateLogicalDevice \/ CreateLogicalDeviceThrow
    \/ InitCreateSwapChain \/ InitCreateImageViews
    \/ ReadFileThrow \/ CreatePipelineLayoutHandle \/ CreatePipelineFromHandle
    \/ CreateVertexBufferMapped \/ CreateVertexBufferMappedThrow
    \/ InitCreateCommandBuffers \/ InitCreateSyncObjects
    \/ MainLoopCond \/ PollEvents \/ MainWaitIdle \/ Cleanup
    \/ MainReturn \/ MainCatch
    \/ WaitForFences \/ AcquireNextImage
    \/ AcquireRebuild \/ AcquireThrow \/ AcquireOk
    \/ ResetFences \/ ResetCommandBuffer \/ RecordCommandBufferDraw
    \/ QueueSubmit \/ QueueSubmitCrash \/ QueueSubmitGarbage
    \/ QueuePresent \/ PresentRebuild \/ PresentThrow \/ PresentOk
    \/ AdvanceFrame
    \/ RcGetSizeFirst \/ RcLoopCond \/ RcGetSize \/ RcWaitEvents
    \/ RcWaitIdle \/ RcClearViews \/ RcDestroySwapChain
    \/ RcCreateSwapChain \/ RcCreateImageViews
    \/ GpuComplete

SpecFirstVersion == Init /\ [][NextFirstVersion]_vars

\* ------------------------------------------------------------------ C24
\* C24: every object passed to a graphics-API operation is alive at that
\* moment; with the member declarations of the header, the pipeline layout
\* passed to graphics-pipeline creation is alive when the pipeline is
\* created and for as long as the pipeline exists.
C24_PipelineLayoutAliveWhenUsed ==
    (pc = "gp_createPipeline" \/ graphicsPipeline) => pipelineLayout = "alive"

====
